---- MODULE Spec2Model ----
(***************************************************************************)
(* Backblaze B2 upload pipeline of blackblaze_image_upload.                *)
(*                                                                         *)
(* The repository holds the same authenticate -> list buckets -> get       *)
(* upload URL -> upload sequence at several call sites:                    *)
(*   - the SvelteKit route handler POST (src/routes/api/b2/+server.ts),    *)
(*   - createB2Client.uploadFile / uploadFileWithProgress (part_000),      *)
(*   - the class B2Client (part_001), which caches authData and bucketId   *)
(*     on the instance.                                                    *)
(* Every invocation is a run p; an await on fetch/XHR is a point where     *)
(* other runs may take steps.  The B2 service is the environment: it       *)
(* answers every request with a 2xx response, a non-2xx response or a      *)
(* transport failure.                                                      *)
(***************************************************************************)
EXTENDS Integers, Sequences, FiniteSets, TLC

(***************************************************************************)
(* Bounds of the model.                                                    *)
(***************************************************************************)
NumRuns == 2
MaxBuckets == 2

Procs == 1..NumRuns

(***************************************************************************)
(* Configuration (Credentials.bucketName) and the environment's data.      *)
(***************************************************************************)
bucketName == "eeshstutiBucket"

BucketNames == {"eeshstutiBucket", "EeshstutiBucket", "other"}
BucketIds == {"b1", "b2"}
Bucket == [bucketId : BucketIds, bucketName : BucketNames]

RECURSIVE SeqsUpTo(_, _)
SeqsUpTo(S, n) ==
    IF n = 0 THEN {<<>>}
    ELSE LET shorter == SeqsUpTo(S, n - 1)
         IN  shorter \cup {Append(s, x) : s \in {t \in shorter : Len(t) = n - 1}, x \in S}

BucketLists == SeqsUpTo(Bucket, MaxBuckets)

DownloadUrls == {"https://f002.backblazeb2.com", "https://f005.backblazeb2.com"}
ProviderFileNames == {"file_1700000000000.jpg", "file_1700000000001.png"}

NoFile == [exists |-> FALSE, name |-> "", size |-> 0]
Files == {NoFile,
          [exists |-> TRUE, name |-> "a.png", size |-> 0],
          [exists |-> TRUE, name |-> "a.png", size |-> 10]}
FileNameArgs == {"", "file_1700000000000.jpg"}

(***************************************************************************)
(* HTTP responses.  status 0 stands for a transport failure (fetch rejects,*)
(* XHR fires 'error').                                                     *)
(***************************************************************************)
OkStatus == {200}
FailStatus == {401, 503}
TransportError == {0}
Statuses == OkStatus \cup FailStatus \cup TransportError

statusText(s) ==
    CASE s = 200 -> "OK"
      [] s = 401 -> "Unauthorized"
      [] s = 503 -> "Service Unavailable"
      [] OTHER   -> ""

ResponseOkBroken(s) == s >= 200 /\ s < 500
\* response.ok: the status is in the range 200..299
ResponseOk(s) == s >= 200 /\ s < 300

(***************************************************************************)
(* B2 API response bodies.                                                 *)
(***************************************************************************)
NullAuth == [accountId |-> "", apiUrl |-> "", authorizationToken |-> "", downloadUrl |-> ""]
NullTicket == [uploadUrl |-> "", authorizationToken |-> ""]

\* the session the service issues to run p: a token no other session carries
AuthResponse(p, d) ==
    [accountId |-> "acct", apiUrl |-> "https://api002.backblazeb2.com",
     authorizationToken |-> "session" \o ToString(p), downloadUrl |-> d]

\* the one-shot upload ticket the service issues to run p for bucket bid
UploadUrlResponse(p, bid) ==
    [uploadUrl |-> "https://pod.backblaze.com/b2api/v2/b2_upload_file/" \o bid,
     authorizationToken |-> "ticket" \o ToString(p)]

(***************************************************************************)
(* Pure helpers of the source.                                             *)
(***************************************************************************)
FindLast(buckets, name) ==
    LET hits == {i \in 1..Len(buckets) : buckets[i].bucketName = name}
    IN  IF hits = {} THEN ""
        ELSE buckets[CHOOSE i \in hits : \A j \in hits : j <= i].bucketId
\* data.buckets.find(b => b.bucketName === bucketName), then bucket.bucketId:
\* Array.prototype.find scans from the first entry and stops at the first
\* one with exactly that name; "" stands for undefined (no entry matches)
RECURSIVE FindFrom(_, _, _)
FindFrom(buckets, name, i) ==
    IF i > Len(buckets) THEN ""
    ELSE IF buckets[i].bucketName = name THEN buckets[i].bucketId
    ELSE FindFrom(buckets, name, i + 1)

FindBucket(buckets, name) == FindFrom(buckets, name, 1)

FileUrlNoBucket(downloadUrl, bucket, fileName) == downloadUrl \o "/file/" \o fileName
\* `${authData.downloadUrl}/file/${this.bucketName}/${fileName}`
FileUrl(downloadUrl, bucket, fileName) ==
    downloadUrl \o "/file/" \o bucket \o "/" \o fileName

\* the host the server route and createB2Client build the result URL from
HardCodedDownloadUrl == "https://f002.backblazeb2.com"

IsEmptyOnlyMissing(f) == ~f.exists
\* !file || file.size === 0
IsEmpty(f) == ~f.exists \/ f.size = 0

\* `${what}: ${response.status} ${response.statusText}`
StatusError(what, s) == what \o ": " \o ToString(s) \o " " \o statusText(s)

\* the message of the error a rejected fetch throws
NetworkError == "fetch failed"

\* the message a failed call of endpoint op throws
CallError(what, s) == IF s \in TransportError THEN NetworkError ELSE StatusError(what, s)

(***************************************************************************)
(* The body of a non-2xx upload response: a JSON object with the fields    *)
(* message, code and error ("" where the object has none), or text that    *)
(* does not parse, given as its characters.                                *)
(***************************************************************************)
ExcerptLen == 100

JsonBody(message, code, error) ==
    [json |-> TRUE, message |-> message, code |-> code, error |-> error, text |-> <<>>]
RawBody(text) ==
    [json |-> FALSE, message |-> "", code |-> "", error |-> "", text |-> text]
NoBody == RawBody(<<>>)

ErrorBodies ==
    {JsonBody("Sha1 did not match data received", "bad_request", ""),
     JsonBody("", "", ""),
     JsonBody("", "", "upstream unavailable"),
     RawBody(<<"o", "o", "p", "s">>),
     RawBody([i \in 1..(ExcerptLen + 1) |-> "x"])}

\* the characters of cs as one string (template-string concatenation); the
\* sequence is joined by halves, which keeps the evaluation shallow for the
\* texts longer than the excerpt
RECURSIVE Join(_)
Join(cs) ==
    IF cs = <<>> THEN ""
    ELSE IF Len(cs) = 1 THEN cs[1]
    ELSE LET half == Len(cs) \div 2
         IN  Join(SubSeq(cs, 1, half)) \o Join(SubSeq(cs, half + 1, Len(cs)))

\* errorText.substring(0, n)
Substring0(text, n) == SubSeq(text, 1, IF Len(text) < n THEN Len(text) ELSE n)

\* ` - ${errorData.message}` and ` (code: ${errorData.code})`, each when the
\* field is truthy
MessagePart(body) == IF body.message # "" THEN " - " \o body.message ELSE ""
CodePart(body) == IF body.code # "" THEN " (code: " \o body.code \o ")" ELSE ""

\* the message of the error a non-2xx upload response ends in, at call site k
UploadErrorMessage(k, s, body) ==
    CASE k = "POST" ->
           StatusError("Upload failed", s)
               \o (IF body.json THEN MessagePart(body) \o CodePart(body)
                    ELSE " - " \o Join(Substring0(body.text, ExcerptLen)))
      [] k = "uploadFile" ->
           StatusError("B2 upload failed", s)
               \o (IF body.json THEN MessagePart(body)
                    ELSE " - " \o Join(body.text))
      [] k = "uploadFileWithProgress" ->
           IF body.json /\ body.error # "" THEN body.error
           ELSE "Server error: " \o ToString(s)
      [] OTHER ->
           StatusError("B2 upload failed", s)
               \o (IF body.json THEN MessagePart(body) \o CodePart(body)
                    ELSE " - " \o Join(body.text))

(***************************************************************************)
(* State.                                                                  *)
(*   kind[p]          the operation run p is an invocation of              *)
(*   pc[p]            "idle", the point the run is suspended at, or "done" *)
(*   file[p]          the File argument of an upload                       *)
(*   fileName[p]      the fileName argument of getFileUrl/checkFileExists  *)
(*   authData[p]      the local authData of the run                        *)
(*   guAuthData[p]    the local authData of B2Client.getUploadUrl          *)
(*   bucketId[p]      the local bucketId                                   *)
(*   uploadUrlData[p] the local upload ticket                              *)
(*   request[p]       the remote request the run awaits the response of    *)
(*   calls[p]         the endpoints the run has called, in order, each     *)
(*                    with the status of its response (-1: in flight)      *)
(*   result[p]        what the invocation returned or threw                *)
(*   thisAuthData, thisBucketId   the fields of the shared B2Client        *)
(*   accountDownloadUrl   the download host of the account's cluster, which*)
(*                    every authorization of the account reports           *)
(*   bucketsIn, nameIn, bucketOut   a bucket list, a bucket name and the   *)
(*                    outcome of looking the name up in the list           *)
(*   now              the clock, in milliseconds since the epoch           *)
(*   upload           the upload request last built from a file: the site  *)
(*                    that built it, the file, the time and the headers    *)
(*   previous         the time, the stored name and the file-name header   *)
(*                    of the request before                                *)
(* The locals of an invocation are discarded when it returns.              *)
(***************************************************************************)
VARIABLES kind, pc, file, fileName, authData, guAuthData, bucketId,
          uploadUrlData, request, calls, result, thisAuthData, thisBucketId,
          accountDownloadUrl, bucketsIn, nameIn, bucketOut,
          now, upload, previous,
          xhr, reported, outcome,
          uploaderState, attempts, dispatched,
          viewerState, loads, viewerDispatched,
          downloaderState, downloaderDispatched,
          callbacks, handles, armed, delivered

vars == <<kind, pc, file, fileName, authData, guAuthData, bucketId,
          uploadUrlData, request, calls, result, thisAuthData, thisBucketId,
          accountDownloadUrl, bucketsIn, nameIn, bucketOut,
          now, upload, previous,
          xhr, reported, outcome,
          uploaderState, attempts, dispatched,
          viewerState, loads, viewerDispatched,
          downloaderState, downloaderDispatched,
          callbacks, handles, armed, delivered>>

\* the state of the upload pipeline
pipeline == <<kind, pc, file, fileName, authData, guAuthData, bucketId,
              uploadUrlData, request, calls, result, thisAuthData, thisBucketId,
              accountDownloadUrl>>

\* the inputs and the result of the bucket lookup taken alone
lookup == <<bucketsIn, nameIn, bucketOut>>

\* the clock and the upload requests built from a file, taken alone
headers == <<now, upload, previous>>

\* the progress reports of one createB2Client upload, taken alone
reporting == <<xhr, reported, outcome>>

\* the component B2ImageUploader, its upload attempts and the events it
\* has dispatched, taken alone
uploader == <<uploaderState, attempts, dispatched>>

\* the component B2ImageViewer, its loadImage calls and the events it has
\* dispatched, taken alone
viewer == <<viewerState, loads, viewerDispatched>>

\* the component B2Downloader and the events it has dispatched, taken alone
downloader == <<downloaderState, downloaderDispatched>>

\* one subscribe/dispatch event object of B2Uploader or B2Downloader
events == <<callbacks, handles, armed, delivered>>

widgets == <<downloader, events>>

\* what the steps of the pipeline leave alone
apart == <<headers, reporting, uploader, viewer, widgets>>

StatelessKinds == {"POST", "uploadFile", "uploadFileWithProgress"}
ClientKinds == {"B2Client.uploadFile", "B2Client.authenticate",
                "B2Client.getFileUrl", "B2Client.checkFileExists"}
UploadKinds == StatelessKinds \cup {"B2Client.uploadFile"}

InFlight == -1

Res(how, success, http, fn, url, err) ==
    [how |-> how, success |-> success, http |-> http,
     fileName |-> fn, fileUrl |-> url, error |-> err]
Pending == Res("pending", FALSE, 0, "", "", "")

Req(op, url, tok, arg) == [op |-> op, url |-> url, tok |-> tok, arg |-> arg]
NoRequest == Req("", "", "", "")

AuthorizeCall ==
    Req("b2_authorize_account",
        "https://api.backblazeb2.com/b2api/v2/b2_authorize_account", "Basic", "")
ListBucketsCall(a) ==
    Req("b2_list_buckets", a.apiUrl \o "/b2api/v2/b2_list_buckets",
        a.authorizationToken, a.accountId)
GetUploadUrlCall(a, bid) ==
    Req("b2_get_upload_url", a.apiUrl \o "/b2api/v2/b2_get_upload_url",
        a.authorizationToken, bid)
UploadCallSessionToken(a, t, f) ==
    Req("b2_upload_file", t.uploadUrl, a.authorizationToken, ToString(f.size))
\* the upload POST: to the ticket's URL, authorized by the ticket's token,
\* Content-Length the size of the file
UploadCall(a, t, f) ==
    Req("b2_upload_file", t.uploadUrl, t.authorizationToken, ToString(f.size))
HeadCall(a, url) == Req("HEAD", url, a.authorizationToken, "")

Idle ==
    /\ kind = [p \in Procs |-> "none"]
    /\ pc = [p \in Procs |-> "idle"]
    /\ file = [p \in Procs |-> NoFile]
    /\ fileName = [p \in Procs |-> ""]
    /\ authData = [p \in Procs |-> NullAuth]
    /\ guAuthData = [p \in Procs |-> NullAuth]
    /\ bucketId = [p \in Procs |-> ""]
    /\ uploadUrlData = [p \in Procs |-> NullTicket]
    /\ request = [p \in Procs |-> NoRequest]
    /\ calls = [p \in Procs |-> <<>>]
    /\ result = [p \in Procs |-> Pending]
    /\ thisAuthData = NullAuth
    /\ thisBucketId = ""
    /\ accountDownloadUrl \in DownloadUrls

Unset == "unset"

\* the instants of the clock
Instants == {1, 11}
NoUpload == [site |-> "none"]
NoPrevious == [at |-> 0, fileName |-> "", header |-> ""]

\* no upload request has been built
\* no upload of createB2Client has been started
NoXhr == [site |-> "none", stage |-> "idle", total |-> 0, onProgress |-> FALSE,
          loaded |-> <<>>]

NoReports == xhr = NoXhr /\ reported = <<>> /\ outcome = "none"

\* B2ImageUploader before it is mounted: the initial values of its state
Unmounted == [mounted |-> FALSE, component |-> "B2ImageUploader",
              autoUpload |-> FALSE, useApiEndpoint |-> TRUE,
              selectedFile |-> "null", uploadStatus |-> "idle",
              uploadProgress |-> 0, uploadedFile |-> "null"]

NoAttempts == uploaderState = Unmounted /\ attempts = <<>> /\ dispatched = <<>>

\* B2ImageViewer before it is mounted: the initial values of its state
ViewerUnmounted == [mounted |-> FALSE, fileName |-> "", autoLoad |-> FALSE,
                    useApiEndpoint |-> TRUE, isLoading |-> FALSE, error |-> "",
                    imageUrl |-> ""]

NoLoads == viewerState = ViewerUnmounted /\ loads = <<>> /\ viewerDispatched = <<>>

\* the callbacks an event object may be given
Cbs == {"f", "g"}

\* B2Downloader as created, and an event object without subscribers
NoDownloads ==
    /\ downloaderState = [fileName |-> "", imageUrl |-> "", status |-> "idle",
                          errorMessage |-> ""]
    /\ downloaderDispatched = <<>>
    /\ callbacks = <<>>
    /\ handles = <<>>
    /\ armed = [cb \in Cbs |-> 0]
    /\ delivered = <<>>

NoUploads ==
    /\ upload = NoUpload
    /\ previous = NoPrevious

Init ==
    /\ Idle
    /\ bucketsIn = <<>>
    /\ nameIn = bucketName
    /\ bucketOut = Unset
    /\ now = 1
    /\ NoUploads
    /\ NoReports
    /\ NoAttempts
    /\ NoLoads
    /\ NoDownloads

(***************************************************************************)
(* Fragments shared by the actions.                                        *)
(***************************************************************************)
\* the locals of run p become a, g, b, t
Locals(p, a, g, b, t) ==
    /\ authData' = [authData EXCEPT ![p] = a]
    /\ guAuthData' = [guAuthData EXCEPT ![p] = g]
    /\ bucketId' = [bucketId EXCEPT ![p] = b]
    /\ uploadUrlData' = [uploadUrlData EXCEPT ![p] = t]

\* the history entry of request c, its response pending
Pend(c) == [op |-> c.op, status |-> InFlight, fileName |-> "", body |-> NoBody]

\* the response with status s to the call the run awaits has arrived
Answered(p, s) == [calls[p] EXCEPT ![Len(calls[p])].status = s]

\* the 2xx response to the upload, whose body names the stored file fn
Uploaded(p, s, fn) ==
    [calls[p] EXCEPT ![Len(calls[p])] =
        [op |-> @.op, status |-> s, fileName |-> fn, body |-> NoBody]]

\* the non-2xx response to the upload, with its body
Refused(p, s, body) ==
    [calls[p] EXCEPT ![Len(calls[p])] =
        [op |-> @.op, status |-> s, fileName |-> "", body |-> body]]

CachedNever(a) == FALSE
\* getAuthData's test `!this.authData` fails: a session is cached
Cached(a) == a # NullAuth

\* the invocation starts with the request c
Issue(p, c, next) ==
    /\ request' = [request EXCEPT ![p] = c]
    /\ calls' = [calls EXCEPT ![p] = Append(@, Pend(c))]
    /\ pc' = [pc EXCEPT ![p] = next]
    /\ result' = result

\* the response arrived and the run issues its next request c
Proceed(p, s, c, next) ==
    /\ request' = [request EXCEPT ![p] = c]
    /\ calls' = [calls EXCEPT ![p] = Append(Answered(p, s), Pend(c))]
    /\ pc' = [pc EXCEPT ![p] = next]
    /\ result' = result

\* the response arrived and the run is suspended at next without a request
Resume(p, s, next) ==
    /\ request' = [request EXCEPT ![p] = NoRequest]
    /\ calls' = [calls EXCEPT ![p] = Answered(p, s)]
    /\ pc' = [pc EXCEPT ![p] = next]
    /\ result' = result

\* the invocation ends with r, no response being awaited
End(p, r) ==
    /\ pc' = [pc EXCEPT ![p] = "done"]
    /\ result' = [result EXCEPT ![p] = r]
    /\ request' = [request EXCEPT ![p] = NoRequest]
    /\ calls' = calls
    /\ Locals(p, NullAuth, NullAuth, "", NullTicket)

\* the response arrived and the invocation ends with r
Finish(p, s, r) ==
    /\ pc' = [pc EXCEPT ![p] = "done"]
    /\ result' = [result EXCEPT ![p] = r]
    /\ request' = [request EXCEPT ![p] = NoRequest]
    /\ calls' = [calls EXCEPT ![p] = Answered(p, s)]
    /\ Locals(p, NullAuth, NullAuth, "", NullTicket)

\* the 2xx response to the upload arrived, naming the stored file fn, and
\* the invocation ends with r
FinishUpload(p, s, fn, r) ==
    /\ pc' = [pc EXCEPT ![p] = "done"]
    /\ result' = [result EXCEPT ![p] = r]
    /\ request' = [request EXCEPT ![p] = NoRequest]
    /\ calls' = [calls EXCEPT ![p] = Uploaded(p, s, fn)]
    /\ Locals(p, NullAuth, NullAuth, "", NullTicket)

CheckFailedRethrows(msg) == Res("thrown", FALSE, 0, "", "", msg)
\* the catch block of checkFileExists: return false
CheckFailed(msg) == Res("returned", FALSE, 0, "", "", "")

ThrownAsBadRequest(k, msg) ==
    IF k = "POST" THEN Res("returned", FALSE, 400, "", "", msg)
    ELSE Res("thrown", FALSE, 0, "", "", msg)
\* what becomes of an Error(msg) thrown inside operation k: the route's catch
\* answers 500, createB2Client's catch returns {success: false, error},
\* checkFileExists' catch returns false, the other B2Client methods reject
Thrown(k, msg) ==
    CASE k = "POST" -> Res("returned", FALSE, 500, "", "", msg)
      [] k \in {"uploadFile", "uploadFileWithProgress"} ->
             Res("returned", FALSE, 0, "", "", msg)
      [] k = "B2Client.checkFileExists" -> CheckFailed(msg)
      [] OTHER -> Res("thrown", FALSE, 0, "", "", msg)

FailAndRetry(p, s, msg) ==
    /\ pc' = pc
    /\ result' = result
    /\ request' = request
    /\ calls' = [calls EXCEPT ![p] = Append(Answered(p, s), Pend(request[p]))]
    /\ UNCHANGED <<authData, guAuthData, bucketId, uploadUrlData>>
\* the awaited call failed with status s and Error(msg) is thrown: the
\* invocation ends with it, nothing is attempted again
Fail(p, s, msg) == Finish(p, s, Thrown(kind[p], msg))

\* the upload was answered the non-2xx status s with this body and the
\* invocation ends with r
FinishRefused(p, s, body, r) ==
    /\ pc' = [pc EXCEPT ![p] = "done"]
    /\ result' = [result EXCEPT ![p] = r]
    /\ request' = [request EXCEPT ![p] = NoRequest]
    /\ calls' = [calls EXCEPT ![p] = Refused(p, s, body)]
    /\ Locals(p, NullAuth, NullAuth, "", NullTicket)

\* `Bucket "${bucketName}" not found`
NotFoundError(name) == "Bucket \"" \o name \o "\" not found"
NotFound == NotFoundError(bucketName)

(***************************************************************************)
(* The server route and createB2Client: every value is local to the run.   *)
(***************************************************************************)
\* POST, multipart branch, up to the first fetch
POST(p) ==
    /\ pc[p] = "idle"
    /\ \E f \in Files :
         /\ kind' = [kind EXCEPT ![p] = "POST"]
         /\ file' = [file EXCEPT ![p] = f]
         /\ IF ~f.exists
              THEN End(p, Res("returned", FALSE, 400, "", "", "No file uploaded"))
            ELSE IF f.size = 0
              THEN End(p, Res("returned", FALSE, 400, "", "", "File is empty"))
            ELSE Issue(p, AuthorizeCall, "authorize") /\ Locals(p, NullAuth, NullAuth, "", NullTicket)
    /\ UNCHANGED <<accountDownloadUrl, lookup, apart, fileName, thisAuthData, thisBucketId>>

\* createB2Client.uploadFile up to the first fetch
uploadFile(p) ==
    /\ pc[p] = "idle"
    /\ \E f \in Files :
         /\ kind' = [kind EXCEPT ![p] = "uploadFile"]
         /\ file' = [file EXCEPT ![p] = f]
         /\ IF IsEmpty(f)
              THEN End(p, Res("returned", FALSE, 0, "", "", "File is empty or invalid"))
              ELSE Issue(p, AuthorizeCall, "authorize") /\ Locals(p, NullAuth, NullAuth, "", NullTicket)
    /\ UNCHANGED <<accountDownloadUrl, lookup, apart, fileName, thisAuthData, thisBucketId>>

\* createB2Client.uploadFileWithProgress up to the first fetch
uploadFileWithProgress(p) ==
    /\ pc[p] = "idle"
    /\ \E f \in Files :
         /\ kind' = [kind EXCEPT ![p] = "uploadFileWithProgress"]
         /\ file' = [file EXCEPT ![p] = f]
         /\ IF IsEmpty(f)
              THEN End(p, Res("returned", FALSE, 0, "", "", "File is empty or invalid"))
              ELSE Issue(p, AuthorizeCall, "authorize") /\ Locals(p, NullAuth, NullAuth, "", NullTicket)
    /\ UNCHANGED <<accountDownloadUrl, lookup, apart, fileName, thisAuthData, thisBucketId>>

\* authenticateB2 / createB2Client.authenticate resumes with the response,
\* and on success the caller goes on to getBucketId's fetch
authenticate(p) ==
    /\ pc[p] = "authorize"
    /\ kind[p] \in StatelessKinds
    /\ \E s \in Statuses :
         IF ResponseOk(s)
           THEN LET d == accountDownloadUrl IN
                  /\ Locals(p, AuthResponse(p, d), NullAuth, "", NullTicket)
                  /\ Proceed(p, s, ListBucketsCall(AuthResponse(p, d)), "list_buckets")
           ELSE Fail(p, s, CallError("Authentication failed", s))
    /\ UNCHANGED <<accountDownloadUrl, lookup, apart, kind, file, fileName, thisAuthData, thisBucketId>>

\* getBucketId resumes with the bucket list, and on success the caller goes
\* on to getUploadUrl's fetch
getBucketId(p) ==
    /\ pc[p] = "list_buckets"
    /\ kind[p] \in StatelessKinds
    /\ \E s \in Statuses :
         IF ResponseOk(s)
           THEN \E bucket \in {FindBucket(buckets, bucketName) : buckets \in BucketLists} :
                  IF bucket = ""
                    THEN Fail(p, s, NotFound)
                    ELSE /\ Locals(p, authData[p], NullAuth, bucket, NullTicket)
                         /\ Proceed(p, s, GetUploadUrlCall(authData[p], bucket),
                                    "get_upload_url")
           ELSE Fail(p, s, CallError("Failed to list buckets", s))
    /\ UNCHANGED <<accountDownloadUrl, lookup, apart, kind, file, fileName, thisAuthData, thisBucketId>>

\* getUploadUrl resumes with the ticket, and on success the caller goes on to
\* the upload (uploadToB2 re-checks file.size first)
getUploadUrl(p) ==
    /\ pc[p] = "get_upload_url"
    /\ kind[p] \in StatelessKinds
    /\ \E s \in Statuses :
         IF ResponseOk(s)
           THEN LET ticket == UploadUrlResponse(p, request[p].arg)
                IN  IF kind[p] = "POST" /\ file[p].size = 0
                      THEN Fail(p, s, "File is empty - please upload a valid file")
                      ELSE /\ Locals(p, authData[p], NullAuth, bucketId[p], ticket)
                           /\ Proceed(p, s, UploadCall(authData[p], ticket, file[p]), "upload")
           ELSE Fail(p, s, CallError("Failed to get upload URL", s))
    /\ UNCHANGED <<accountDownloadUrl, lookup, apart, kind, file, fileName, thisAuthData, thisBucketId>>

\* the upload fetch of uploadToB2 / createB2Client.uploadFile resumes
uploadToB2(p) ==
    /\ pc[p] = "upload"
    /\ kind[p] \in {"POST", "uploadFile"}
    /\ \E s \in Statuses :
         IF ResponseOk(s)
           THEN \E fn \in ProviderFileNames :
                  FinishUpload(p, s, fn,
                      Res("returned", TRUE, IF kind[p] = "POST" THEN 200 ELSE 0,
                          fn, FileUrl(HardCodedDownloadUrl, bucketName, fn), ""))
           ELSE IF s \in TransportError THEN Fail(p, s, NetworkError)
           ELSE \E body \in ErrorBodies :
                  FinishRefused(p, s, body,
                      Thrown(kind[p], UploadErrorMessage(kind[p], s, body)))
    /\ UNCHANGED <<accountDownloadUrl, lookup, apart, kind, file, fileName, thisAuthData, thisBucketId>>

\* xhr 'load' of uploadFileWithProgress: a 2xx response whose body parses,
\* a 2xx response whose body does not, or a non-2xx response
xhrLoad(p) ==
    /\ pc[p] = "upload"
    /\ kind[p] = "uploadFileWithProgress"
    /\ \E s \in OkStatus \cup FailStatus, parses \in BOOLEAN :
         IF ResponseOk(s)
           THEN IF parses
                  THEN \E fn \in ProviderFileNames :
                         FinishUpload(p, s, fn,
                             Res("returned", TRUE, 0, fn,
                                 FileUrl(HardCodedDownloadUrl, bucketName, fn), ""))
                  ELSE Finish(p, s, Res("returned", FALSE, 0, "", "",
                                        "Invalid response from server"))
           ELSE \E body \in ErrorBodies :
                  FinishRefused(p, s, body,
                      Res("returned", FALSE, 0, "", "",
                          UploadErrorMessage(kind[p], s, body)))
    /\ UNCHANGED <<accountDownloadUrl, lookup, apart, kind, file, fileName, thisAuthData, thisBucketId>>

\* xhr 'error' of uploadFileWithProgress
xhrError(p) ==
    /\ pc[p] = "upload"
    /\ kind[p] = "uploadFileWithProgress"
    /\ \E s \in TransportError :
         Finish(p, s, Res("returned", FALSE, 0, "", "",
                          "Network error occurred during upload"))
    /\ UNCHANGED <<accountDownloadUrl, lookup, apart, kind, file, fileName, thisAuthData, thisBucketId>>

\* the ReferenceError of `new XMLHttpRequest()` where the runtime, like the
\* Node runtime whose crypto module createB2Client imports, has no such global
XhrUndefined == "XMLHttpRequest is not defined"

\* the executor of the promise uploadFileWithProgress returns throws before
\* xhr.send: the promise is rejected, and since it is returned without an
\* await the catch block of uploadFileWithProgress never sees the rejection
xhrThrows(p) ==
    /\ pc[p] = "upload"
    /\ kind[p] = "uploadFileWithProgress"
    /\ pc' = [pc EXCEPT ![p] = "done"]
    /\ result' = [result EXCEPT ![p] = Res("thrown", FALSE, 0, "", "", XhrUndefined)]
    /\ request' = [request EXCEPT ![p] = NoRequest]
    /\ calls' = [calls EXCEPT ![p] = SubSeq(@, 1, Len(@) - 1)]
    /\ Locals(p, NullAuth, NullAuth, "", NullTicket)
    /\ UNCHANGED <<accountDownloadUrl, lookup, apart, kind, file, fileName, thisAuthData, thisBucketId>>

(***************************************************************************)
(* The class B2Client: authData and bucketId are cached on the instance,   *)
(* which all its invocations share.  A step runs from one await to the     *)
(* next; the fields are read and written where the source reads and writes *)
(* them.                                                                   *)
(***************************************************************************)
\* B2Client.uploadFile up to its first await: the file check and getAuthData()
B2Client_uploadFile(p) ==
    /\ pc[p] = "idle"
    /\ \E f \in Files :
         /\ kind' = [kind EXCEPT ![p] = "B2Client.uploadFile"]
         /\ file' = [file EXCEPT ![p] = f]
         /\ IF IsEmpty(f)
              THEN End(p, Res("thrown", FALSE, 0, "", "",
                              "File is empty - please upload a valid file"))
            ELSE IF Cached(thisAuthData)
              THEN /\ Locals(p, thisAuthData, NullAuth, "", NullTicket)
                   /\ pc' = [pc EXCEPT ![p] = "getUploadUrl"]
                   /\ UNCHANGED <<request, calls, result>>
            ELSE /\ Issue(p, AuthorizeCall, "authorize")
                 /\ Locals(p, NullAuth, NullAuth, "", NullTicket)
    /\ UNCHANGED <<accountDownloadUrl, lookup, apart, fileName, thisAuthData, thisBucketId>>

\* a caller invokes B2Client.authenticate directly
B2Client_authenticateCall(p) ==
    /\ pc[p] = "idle"
    /\ kind' = [kind EXCEPT ![p] = "B2Client.authenticate"]
    /\ Issue(p, AuthorizeCall, "authorize")
    /\ UNCHANGED <<accountDownloadUrl, lookup, apart, file, fileName, authData, guAuthData, bucketId, uploadUrlData,
                   thisAuthData, thisBucketId>>

\* B2Client.getFileUrl: the fileName check, getAuthData() and, when the
\* session is cached, the returned URL
B2Client_getFileUrl(p) ==
    /\ pc[p] = "idle"
    /\ \E fn \in FileNameArgs :
         /\ kind' = [kind EXCEPT ![p] = "B2Client.getFileUrl"]
         /\ fileName' = [fileName EXCEPT ![p] = fn]
         /\ IF fn = ""
              THEN End(p, Res("thrown", FALSE, 0, "", "", "File name is required"))
            ELSE IF Cached(thisAuthData)
              THEN End(p, Res("returned", TRUE, 0, "",
                              FileUrl(thisAuthData.downloadUrl, bucketName, fn), ""))
            ELSE /\ Issue(p, AuthorizeCall, "authorize")
                 /\ Locals(p, NullAuth, NullAuth, "", NullTicket)
    /\ UNCHANGED <<accountDownloadUrl, lookup, apart, file, thisAuthData, thisBucketId>>

\* B2Client.checkFileExists: the fileName check (outside the try block),
\* getAuthData() and, when the session is cached, the HEAD request
B2Client_checkFileExists(p) ==
    /\ pc[p] = "idle"
    /\ \E fn \in FileNameArgs :
         /\ kind' = [kind EXCEPT ![p] = "B2Client.checkFileExists"]
         /\ fileName' = [fileName EXCEPT ![p] = fn]
         /\ IF fn = ""
              THEN End(p, Res("thrown", FALSE, 0, "", "", "File name is required"))
            ELSE IF Cached(thisAuthData)
              THEN /\ Locals(p, thisAuthData, NullAuth, "", NullTicket)
                   /\ Issue(p, HeadCall(thisAuthData,
                                        FileUrl(thisAuthData.downloadUrl, bucketName, fn)),
                            "head")
            ELSE /\ Issue(p, AuthorizeCall, "authorize")
                 /\ Locals(p, NullAuth, NullAuth, "", NullTicket)
    /\ UNCHANGED <<accountDownloadUrl, lookup, apart, file, thisAuthData, thisBucketId>>

\* B2Client.authenticate resumes with the response: on success it stores the
\* session in this.authData and returns it
B2Client_authenticate(p) ==
    /\ pc[p] = "authorize"
    /\ kind[p] \in ClientKinds
    /\ \E s \in Statuses :
         IF ResponseOk(s)
           THEN LET d == accountDownloadUrl IN
                  /\ thisAuthData' = AuthResponse(p, d)
                  /\ IF kind[p] = "B2Client.authenticate"
                       THEN Finish(p, s, Res("returned", TRUE, 0, "", "", ""))
                       ELSE /\ Resume(p, s, "getAuthData")
                            /\ Locals(p, AuthResponse(p, d), NullAuth, "", NullTicket)
           ELSE /\ Fail(p, s, CallError("Authentication failed", s))
                /\ thisAuthData' = thisAuthData
    /\ UNCHANGED <<accountDownloadUrl, lookup, apart, kind, file, fileName, thisBucketId>>

\* getAuthData resumes with the session authenticate returned, stores it in
\* this.authData and returns it; getFileUrl then returns the URL and
\* checkFileExists issues the HEAD request
B2Client_getAuthData(p) ==
    /\ pc[p] = "getAuthData"
    /\ thisAuthData' = authData[p]
    /\ CASE kind[p] = "B2Client.getFileUrl" ->
              /\ End(p, Res("returned", TRUE, 0, "",
                            FileUrl(authData[p].downloadUrl, bucketName, fileName[p]), ""))
         [] kind[p] = "B2Client.checkFileExists" ->
              /\ Issue(p, HeadCall(authData[p],
                                   FileUrl(authData[p].downloadUrl, bucketName, fileName[p])),
                       "head")
              /\ UNCHANGED <<authData, guAuthData, bucketId, uploadUrlData>>
         [] OTHER ->
              /\ pc' = [pc EXCEPT ![p] = "getUploadUrl"]
              /\ UNCHANGED <<request, calls, result, authData, guAuthData, bucketId,
                             uploadUrlData>>
    /\ UNCHANGED <<accountDownloadUrl, lookup, apart, kind, file, fileName, thisBucketId>>

\* uploadFile resumes and calls getUploadUrl, which reads this.authData in
\* its own getAuthData() and awaits
B2Client_getUploadUrlCall(p) ==
    /\ pc[p] = "getUploadUrl"
    /\ Locals(p, authData[p], thisAuthData, "", NullTicket)
    /\ pc' = [pc EXCEPT ![p] = "getBucketId"]
    /\ UNCHANGED <<accountDownloadUrl, lookup, apart, kind, file, fileName, request, calls, result, thisAuthData, thisBucketId>>

\* getUploadUrl resumes and calls getBucketId: with a cached this.bucketId
\* the get-upload-URL request follows, otherwise getBucketId reads
\* this.authData and lists the buckets
B2Client_getBucketIdCall(p) ==
    /\ pc[p] = "getBucketId"
    /\ IF thisBucketId # ""
         THEN /\ Locals(p, authData[p], guAuthData[p], thisBucketId, NullTicket)
              /\ Issue(p, GetUploadUrlCall(guAuthData[p], thisBucketId), "get_upload_url")
         ELSE /\ Issue(p, ListBucketsCall(thisAuthData), "list_buckets")
              /\ UNCHANGED <<authData, guAuthData, bucketId, uploadUrlData>>
    /\ UNCHANGED <<accountDownloadUrl, lookup, apart, kind, file, fileName, thisAuthData, thisBucketId>>

B2Client_getBucketIdClearing(p) ==
    /\ pc[p] = "list_buckets"
    /\ kind[p] \in ClientKinds
    /\ \E s \in Statuses :
         IF ResponseOk(s)
           THEN \E bucket \in {FindBucket(buckets, bucketName) : buckets \in BucketLists} :
                  IF bucket = ""
                    THEN /\ Fail(p, s, NotFound)
                         /\ thisBucketId' = ""
                    ELSE /\ thisBucketId' = bucket
                         /\ Locals(p, authData[p], guAuthData[p], bucket, NullTicket)
                         /\ Proceed(p, s, GetUploadUrlCall(guAuthData[p], bucket),
                                    "get_upload_url")
           ELSE /\ Fail(p, s, CallError("Failed to list buckets", s))
                /\ thisBucketId' = ""
    /\ UNCHANGED <<accountDownloadUrl, lookup, apart, kind, file, fileName, thisAuthData>>

\* getBucketId resumes with the bucket list, stores the id in this.bucketId,
\* and getUploadUrl goes on to its fetch
B2Client_getBucketId(p) ==
    /\ pc[p] = "list_buckets"
    /\ kind[p] \in ClientKinds
    /\ \E s \in Statuses :
         IF ResponseOk(s)
           THEN \E bucket \in {FindBucket(buckets, bucketName) : buckets \in BucketLists} :
                  IF bucket = ""
                    THEN /\ Fail(p, s, NotFound)
                         /\ thisBucketId' = thisBucketId
                    ELSE /\ thisBucketId' = bucket
                         /\ Locals(p, authData[p], guAuthData[p], bucket, NullTicket)
                         /\ Proceed(p, s, GetUploadUrlCall(guAuthData[p], bucket),
                                    "get_upload_url")
           ELSE /\ Fail(p, s, CallError("Failed to list buckets", s))
                /\ thisBucketId' = thisBucketId
    /\ UNCHANGED <<accountDownloadUrl, lookup, apart, kind, file, fileName, thisAuthData>>

\* getUploadUrl resumes with the ticket and uploadFile goes on to the upload
B2Client_getUploadUrl(p) ==
    /\ pc[p] = "get_upload_url"
    /\ kind[p] \in ClientKinds
    /\ \E s \in Statuses :
         IF ResponseOk(s)
           THEN LET ticket == UploadUrlResponse(p, request[p].arg)
                IN  /\ Locals(p, authData[p], guAuthData[p], bucketId[p], ticket)
                    /\ Proceed(p, s, UploadCall(authData[p], ticket, file[p]), "upload")
           ELSE Fail(p, s, CallError("Failed to get upload URL", s))
    /\ UNCHANGED <<accountDownloadUrl, lookup, apart, kind, file, fileName, thisAuthData, thisBucketId>>

\* the upload fetch of B2Client.uploadFile resumes
B2Client_upload(p) ==
    /\ pc[p] = "upload"
    /\ kind[p] \in ClientKinds
    /\ \E s \in Statuses :
         IF ResponseOk(s)
           THEN \E fn \in ProviderFileNames :
                  FinishUpload(p, s, fn,
                      Res("returned", TRUE, 0, fn,
                          FileUrl(authData[p].downloadUrl, bucketName, fn), ""))
           ELSE IF s \in TransportError THEN Fail(p, s, NetworkError)
           ELSE \E body \in ErrorBodies :
                  FinishRefused(p, s, body,
                      Thrown(kind[p], UploadErrorMessage(kind[p], s, body)))
    /\ UNCHANGED <<accountDownloadUrl, lookup, apart, kind, file, fileName, thisAuthData, thisBucketId>>

\* the HEAD fetch of checkFileExists resumes: response.ok, or false when the
\* fetch rejected
B2Client_head(p) ==
    /\ pc[p] = "head"
    /\ \E s \in Statuses :
         IF s \in TransportError
           THEN Fail(p, s, NetworkError)
           ELSE Finish(p, s, Res("returned", ResponseOk(s), 0, "", "", ""))
    /\ UNCHANGED <<accountDownloadUrl, lookup, apart, kind, file, fileName, thisAuthData, thisBucketId>>

(***************************************************************************)
(* The bucket lookup of getBucketId taken alone, on every bucket list and  *)
(* every bucket name.                                                      *)
(***************************************************************************)
InitLookup ==
    /\ Idle
    /\ bucketsIn \in BucketLists
    /\ nameIn \in BucketNames
    /\ bucketOut = Unset
    /\ now = 1
    /\ NoUploads
    /\ NoReports
    /\ NoAttempts
    /\ NoLoads
    /\ NoDownloads

\* const bucket = data.buckets.find(...); if (!bucket) throw; return bucket.bucketId
findBucket ==
    /\ bucketOut = Unset
    /\ bucketOut' = (IF FindBucket(bucketsIn, nameIn) = ""
                       THEN NotFoundError(nameIn)
                       ELSE FindBucket(bucketsIn, nameIn))
    /\ UNCHANGED <<pipeline, bucketsIn, nameIn, apart>>

(***************************************************************************)
(* The upload request built from a file, taken alone: the derived file     *)
(* name, the X-Bz-File-Name header, the hash and the length, at every      *)
(* upload call site.  A file name is a sequence of characters (one-        *)
(* character strings), so that split, pop and encodeURIComponent work on   *)
(* it as they do in the source.                                            *)
(***************************************************************************)
MaxNameLen == 2

NameChars == {"a", "1", ".", " "}
OriginalNames == SeqsUpTo(NameChars, MaxNameLen)
FileBodies == {<<7>>, <<7, 255>>, <<0, 0, 0>>}

\* the files handed to the upload: every name, and every body
Uploadables ==
    {[name |-> n, bytes |-> <<7>>] : n \in OriginalNames}
        \cup {[name |-> <<"a", ".", "a">>, bytes |-> b] : b \in FileBodies}
\* the characters after the last "." of name, the whole of it when it has none
RECURSIVE LastSegment(_)
LastSegment(name) ==
    IF name = <<>> THEN <<>>
    ELSE IF name[Len(name)] = "." THEN <<>>
    ELSE Append(LastSegment(SubSeq(name, 1, Len(name) - 1)), name[Len(name)])

\* file.name.split('.').pop() || 'jpg': the empty string is the only falsy one
Extension(name) ==
    IF LastSegment(name) = <<>> THEN <<"j", "p", "g">> ELSE LastSegment(name)

\* the decimal digits of n, as characters
RECURSIVE Digits(_)
Digits(n) ==
    IF n < 10 THEN <<ToString(n)>>
    ELSE Append(Digits(n \div 10), ToString(n % 10))

DerivedFileNameUntimed(name, timestamp) ==
    <<"f", "i", "l", "e", "_", ".">> \o Extension(name)
\* `file_${timestamp}.${extension}`, as characters
DerivedFileName(name, timestamp) ==
    <<"f", "i", "l", "e", "_">> \o Digits(timestamp) \o <<".">> \o Extension(name)

\* the characters encodeURIComponent leaves as they are
Unreserved ==
    {"a", "b", "c", "d", "e", "f", "g", "h", "i", "j", "k", "l", "m", "n", "o",
     "p", "q", "r", "s", "t", "u", "v", "w", "x", "y", "z",
     "0", "1", "2", "3", "4", "5", "6", "7", "8", "9",
     "-", "_", ".", "!", "~", "*", "'", "(", ")"}

\* %XX of the UTF-8 bytes of a character that is not unreserved
PercentEncoded(c) ==
    CASE c = " " -> "%20"
      [] c = "/" -> "%2F"
      [] OTHER   -> "%3F"

\* encodeURIComponent, character by character
RECURSIVE EncodeURIComponent(_)
EncodeURIComponent(cs) ==
    IF cs = <<>> THEN ""
    ELSE (IF Head(cs) \in Unreserved THEN Head(cs) ELSE PercentEncoded(Head(cs)))
             \o EncodeURIComponent(Tail(cs))

\* crypto.createHash('sha1').update(buffer).digest('hex'): the digest of
\* exactly these bytes, distinct for distinct byte sequences
Sha1Hex(bytes) == <<"sha1", bytes>>

FileBufferWithoutLastByte(f) == SubSeq(f.bytes, 1, Len(f.bytes) - 1)
\* Buffer.from(await file.arrayBuffer()): the bytes of the file
FileBuffer(f) == f.bytes

UploadSites == {"POST", "POST.part_000", "POST.part_001", "uploadFile",
                "uploadFileWithProgress", "B2Client.uploadFile"}

\* the request the site builds for file f at the present time, the header
\* being the derived name encoded or as it is; a behaviour builds two
\* requests, the pair that is compared
BuildUpload(site, f, encoded) ==
    /\ previous = NoPrevious
    /\ upload' = [site |-> site, original |-> f.name, bytes |-> f.bytes, at |-> now,
                  fileName |-> Join(DerivedFileName(f.name, now)),
                  header |-> IF encoded THEN EncodeURIComponent(DerivedFileName(f.name, now))
                                        ELSE Join(DerivedFileName(f.name, now)),
                  contentLength |-> ToString(Len(FileBuffer(f))),
                  sha1 |-> Sha1Hex(FileBuffer(f)),
                  body |-> FileBuffer(f)]
    /\ previous' = IF upload = NoUpload THEN previous
                   ELSE [at |-> upload.at, fileName |-> upload.fileName,
                         header |-> upload.header]
    /\ UNCHANGED <<now, pipeline, lookup, reporting, uploader, viewer, widgets>>

InitHeaders ==
    /\ Idle
    /\ bucketsIn = <<>>
    /\ nameIn = bucketName
    /\ bucketOut = Unset
    /\ now \in Instants
    /\ NoUploads
    /\ NoReports
    /\ NoAttempts
    /\ NoLoads
    /\ NoDownloads

\* time passes
tick ==
    /\ \E t \in Instants : t > now /\ now' = t
    /\ UNCHANGED <<upload, previous, pipeline, lookup, reporting, uploader, viewer, widgets>>

\* uploadToB2 of src/routes/api/b2/+server.ts: the header is the encoded name
uploadToB2_encoded ==
    \E f \in Uploadables : BuildUpload("POST", f, TRUE)

\* uploadToB2 of the two other route handlers: the header is the name itself
uploadToB2_plain ==
    \E site \in {"POST.part_000", "POST.part_001"}, f \in Uploadables :
        BuildUpload(site, f, FALSE)

\* createB2Client.uploadFile and uploadFileWithProgress
createB2Client_request ==
    \E site \in {"uploadFile", "uploadFileWithProgress"}, f \in Uploadables :
        BuildUpload(site, f, FALSE)

\* B2Client.uploadFile
B2Client_request ==
    \E f \in Uploadables : BuildUpload("B2Client.uploadFile", f, FALSE)

NextHeaders ==
    \/ tick
    \/ uploadToB2_encoded
    \/ uploadToB2_plain
    \/ createB2Client_request
    \/ B2Client_request

(***************************************************************************)
(* The progress reports of createB2Client.  uploadFile reports 10 before   *)
(* its fetch and 100 after the response body was read; uploadFileWithProgress *)
(* reports 10 before the XMLHttpRequest, a scaled value for every progress *)
(* event of xhr.upload whose length is computable, and 100 in the load     *)
(* handler once the response body was parsed.  One upload is followed from *)
(* the call to its result; total is the byte length of the body sent.      *)
(***************************************************************************)
MaxProgressEvents == 3

\* the byte lengths of the files handed over, the empty file included
Totals == {0} \cup {Len(b) : b \in FileBodies}

\* Math.round of the quotient n / d of two naturals, d > 0
Round(n, d) == (2 * n + d) \div (2 * d)

ScaledProgressOfHundred(loaded, total) == Round(loaded * 100, total)

\* 10 + Math.round((event.loaded / event.total) * 85)
ScaledProgress(loaded, total) == 10 + Round(loaded * 85, total)

\* onProgress(value), when a callback was passed
onProgress(value) ==
    reported' = IF xhr.onProgress THEN Append(reported, value) ELSE reported

\* the call: an empty file is answered at once, without a report
startUpload ==
    /\ xhr.stage = "idle"
    /\ \E site \in {"uploadFile", "uploadFileWithProgress"}, total \in Totals,
          cb \in BOOLEAN :
         /\ xhr' = [site |-> site, total |-> total, onProgress |-> cb,
                    loaded |-> <<>>,
                    stage |-> IF total = 0 THEN "done" ELSE "chain"]
         /\ outcome' = IF total = 0 THEN "failure" ELSE "none"
    /\ UNCHANGED <<reported, pipeline, lookup, headers, uploader, viewer, widgets>>

\* authenticate, getBucketId or getUploadUrl threw: the catch answers
chainFailed ==
    /\ xhr.stage = "chain"
    /\ xhr' = [xhr EXCEPT !.stage = "done"]
    /\ outcome' = "failure"
    /\ UNCHANGED <<reported, pipeline, lookup, headers, uploader, viewer, widgets>>

\* the three calls succeeded: onProgress(10), then the request is sent
chainCompleted ==
    /\ xhr.stage = "chain"
    /\ xhr' = [xhr EXCEPT !.stage = "sending"]
    /\ onProgress(10)
    /\ UNCHANGED <<outcome, pipeline, lookup, headers, uploader, viewer, widgets>>

\* a 'progress' event of xhr.upload; an event whose length is not computable
\* is not reported
xhrUploadProgress ==
    /\ xhr.stage = "sending"
    /\ xhr.site = "uploadFileWithProgress"
    /\ Len(xhr.loaded) < MaxProgressEvents
    /\ \E loaded \in 0..(xhr.total + 1), lengthComputable \in BOOLEAN :
         /\ xhr' = [xhr EXCEPT !.loaded =
                        Append(@, [loaded |-> loaded,
                                   lengthComputable |-> lengthComputable])]
         /\ IF lengthComputable
              THEN onProgress(ScaledProgress(loaded, xhr.total))
              ELSE UNCHANGED reported
    /\ UNCHANGED <<outcome, pipeline, lookup, headers, uploader, viewer, widgets>>

\* a 2xx response whose body was read: onProgress(100), then the result
uploadCompleted ==
    /\ xhr.stage = "sending"
    /\ xhr' = [xhr EXCEPT !.stage = "done"]
    /\ onProgress(100)
    /\ outcome' = "success"
    /\ UNCHANGED <<pipeline, lookup, headers, uploader, viewer, widgets>>

\* a response that is not 2xx, a body that does not parse, or a network
\* error: the result is a failure and nothing is reported
uploadFailed ==
    /\ xhr.stage = "sending"
    /\ xhr' = [xhr EXCEPT !.stage = "done"]
    /\ outcome' = "failure"
    /\ UNCHANGED <<reported, pipeline, lookup, headers, uploader, viewer, widgets>>

NextProgress ==
    \/ startUpload
    \/ chainFailed
    \/ chainCompleted
    \/ xhrUploadProgress
    \/ uploadCompleted
    \/ uploadFailed

(***************************************************************************)
(* The component B2ImageUploader.  Every call of its uploadFile is an      *)
(* attempt; the events are kept in the order of their dispatch, each with  *)
(* the attempt it belongs to (0 for handleFileSelect) and the uploadStatus *)
(* the component had when it was dispatched.  uploadFile is followed in    *)
(* every state of the component, also in those in which the template shows *)
(* no button for it.  selectedFile is "null", "empty" (size 0) or "image". *)
(* The component B2Uploader is followed by the same steps: it validates    *)
(* the type and the size of a file, never uploads on selection, and        *)
(* uploads through uploadFileWithProgress of its createB2Client.           *)
(***************************************************************************)
MaxAttempts == 2
MaxDispatched == 5

\* the byte length of the form data sent
UploaderTotals == {2}

\* Math.round((event.loaded / event.total) * 100)
UploadProgress(loaded, total) == Round(loaded * 100, total)

\* the component, its attempts and its events as one value
Component == [st |-> uploaderState, att |-> attempts, log |-> dispatched]

Becomes(c) ==
    /\ uploaderState' = c.st
    /\ attempts' = c.att
    /\ dispatched' = c.log

\* dispatch(event, ...) during attempt a
Dispatch(c, event, a) ==
    [c EXCEPT !.log = Append(@, [event |-> event, attempt |-> a,
                                  uploadStatus |-> c.st.uploadStatus])]

\* the files offered to a component: of a type that is not allowed, larger
\* than the maximum size, empty, and two files that pass the validation
OfferedFiles == {"wrongtype", "oversize", "empty", "image", "image2"}

ValidWhateverSize(component, f) ==
    ~(component = "B2Uploader" /\ f = "wrongtype")

\* the validation of handleFileSelect (size) and of processSelectedFile
\* (type, then size)
Valid(component, f) ==
    /\ ~(component = "B2Uploader" /\ f = "wrongtype")
    /\ f # "oversize"

\* an attempt as uploadFile leaves it at its first await or at its return
Attempt(cause, stage, method, requests, f) ==
    [cause |-> cause, stage |-> stage, method |-> method, requests |-> requests,
     file |-> f]

CatchSilently(c, a) ==
    [c EXCEPT !.st.uploadStatus = "error", !.att[a].stage = "ended"]

\* the catch block of uploadFile
Catch(c, a) ==
    Dispatch([c EXCEPT !.st.uploadStatus = "error", !.att[a].stage = "ended"],
             "error", a)

\* the statements after the await of uploadFile
Succeed(c, a) ==
    Dispatch([c EXCEPT !.st.uploadStatus = "success",
                       !.st.uploadedFile = c.att[a].file,
                       !.att[a].stage = "ended"],
             "success", a)

\* uploadFile up to its first await; opens tells whether new XMLHttpRequest()
\* and xhr.open() return or throw
UploadFile(c, opens) ==
    LET a == Len(c.att) + 1
        refuse(cause) ==
            Dispatch([c EXCEPT !.st.uploadStatus = "error",
                               !.att = Append(@, Attempt(cause, "ended", "none", 0,
                                                         c.st.selectedFile))],
                     "error", a)
        started ==
            Dispatch([c EXCEPT !.st.uploadStatus = "uploading",
                               !.st.uploadProgress = 0],
                     "start", a)
    IN  CASE c.st.selectedFile = "null"  -> refuse("no file")
          [] c.st.selectedFile = "empty" -> refuse("empty file")
          [] OTHER ->
               IF c.st.component = "B2Uploader"
                 THEN [started EXCEPT !.att =
                           Append(@, Attempt("started", "sending", "client", 1,
                                             c.st.selectedFile))]
               ELSE IF ~c.st.useApiEndpoint
                 THEN [started EXCEPT !.att =
                           Append(@, Attempt("started", "sending", "direct", 1,
                                             c.st.selectedFile))]
               ELSE IF opens
                 THEN [started EXCEPT !.att =
                           Append(@, Attempt("started", "sending", "endpoint", 1,
                                             c.st.selectedFile))]
               ELSE Catch([started EXCEPT !.att =
                               Append(@, Attempt("started", "sending", "endpoint", 0,
                                                 c.st.selectedFile))],
                          a)

\* the component is created with its props
B2ImageUploader_mount ==
    /\ ~uploaderState.mounted
    /\ \E autoUpload \in BOOLEAN, useApiEndpoint \in BOOLEAN :
         uploaderState' = [uploaderState EXCEPT !.mounted = TRUE,
                                                !.autoUpload = autoUpload,
                                                !.useApiEndpoint = useApiEndpoint]
    /\ UNCHANGED <<attempts, dispatched, pipeline, lookup, headers, reporting, viewer, widgets>>

\* the component B2Uploader is created: it has no autoUpload and uploads
\* through its own client
B2Uploader_mount ==
    /\ ~uploaderState.mounted
    /\ uploaderState' = [uploaderState EXCEPT !.mounted = TRUE,
                                                !.component = "B2Uploader",
                                                !.useApiEndpoint = FALSE]
    /\ UNCHANGED <<attempts, dispatched, pipeline, lookup, headers, reporting, viewer, widgets>>

\* handleFileSelect with one file in the input, or a drop of one file
handleFileSelect ==
    /\ uploaderState.mounted
    /\ uploaderState.component = "B2ImageUploader"
    /\ Len(dispatched) < MaxDispatched
    /\ uploaderState.autoUpload => Len(attempts) < MaxAttempts
    /\ \E f \in OfferedFiles \ {"wrongtype"}, opens \in BOOLEAN :
         IF ~Valid(uploaderState.component, f)
           THEN Becomes(Dispatch([Component EXCEPT !.st.uploadStatus = "error"],
                                 "error", 0))
           ELSE LET selected ==
                        Dispatch([Component EXCEPT !.st.selectedFile = f,
                                                   !.st.uploadStatus = "idle"],
                                 "select", 0)
                IN  Becomes(IF uploaderState.autoUpload
                              THEN UploadFile(selected, opens)
                              ELSE selected)
    /\ UNCHANGED <<pipeline, lookup, headers, reporting, viewer, widgets>>

\* processSelectedFile of B2Uploader, called for a selected or dropped file
processSelectedFile ==
    /\ uploaderState.mounted
    /\ uploaderState.component = "B2Uploader"
    /\ Len(dispatched) < MaxDispatched
    /\ \E f \in OfferedFiles :
         IF ~Valid(uploaderState.component, f)
           THEN Becomes(Dispatch([Component EXCEPT !.st.uploadStatus = "error"],
                                 "error", 0))
           ELSE Becomes([Dispatch([Component EXCEPT !.st.selectedFile = f],
                                  "select", 0)
                            EXCEPT !.st.uploadStatus = "idle",
                                   !.st.uploadProgress = 0,
                                   !.st.uploadedFile = "null"])
    /\ UNCHANGED <<pipeline, lookup, headers, reporting, viewer, widgets>>

\* a call of uploadFile, as the click on the upload button makes it
B2ImageUploader_uploadFile ==
    /\ uploaderState.mounted
    /\ Len(attempts) < MaxAttempts
    /\ \E opens \in BOOLEAN : Becomes(UploadFile(Component, opens))
    /\ UNCHANGED <<pipeline, lookup, headers, reporting, viewer, widgets>>

\* a 'progress' event of xhr.upload during attempt a
B2ImageUploader_progress(a) ==
    /\ attempts[a].stage = "sending"
    /\ attempts[a].method \in {"endpoint", "client"}
    /\ Len(dispatched) < MaxDispatched
    /\ \E total \in UploaderTotals, lengthComputable \in BOOLEAN :
         \E loaded \in 0..total :
           Becomes(IF lengthComputable
                     THEN Dispatch([Component EXCEPT !.st.uploadProgress =
                                        UploadProgress(loaded, total)],
                                   "progress", a)
                     ELSE Component)
    /\ UNCHANGED <<pipeline, lookup, headers, reporting, viewer, widgets>>

\* the promise attempt a awaits is resolved: uploadToB2 returned, or the
\* endpoint answered 2xx with a body naming fileName and fileUrl
B2ImageUploader_resolved(a) ==
    /\ attempts[a].stage = "sending"
    /\ Becomes(Succeed(Component, a))
    /\ UNCHANGED <<pipeline, lookup, headers, reporting, viewer, widgets>>

\* the promise attempt a awaits is rejected: uploadToB2 threw, the endpoint
\* answered another status or another body, or the network failed
B2ImageUploader_rejected(a) ==
    /\ attempts[a].stage = "sending"
    /\ Becomes(Catch(Component, a))
    /\ UNCHANGED <<pipeline, lookup, headers, reporting, viewer, widgets>>

\* the exported reset()
reset ==
    /\ uploaderState.mounted
    /\ uploaderState.component = "B2ImageUploader"
    /\ uploaderState' = [uploaderState EXCEPT !.selectedFile = "null",
                                                !.uploadStatus = "idle",
                                                !.uploadProgress = 0,
                                                !.uploadedFile = "null"]
    /\ UNCHANGED <<attempts, dispatched, pipeline, lookup, headers, reporting, viewer, widgets>>

NextUploader ==
    \/ B2ImageUploader_mount
    \/ B2Uploader_mount
    \/ handleFileSelect
    \/ processSelectedFile
    \/ B2ImageUploader_uploadFile
    \/ \E a \in 1..Len(attempts) : B2ImageUploader_progress(a)
    \/ \E a \in 1..Len(attempts) : B2ImageUploader_resolved(a)
    \/ \E a \in 1..Len(attempts) : B2ImageUploader_rejected(a)
    \/ reset

(***************************************************************************)
(* The component B2ImageViewer.  Every call of loadImage is kept with the  *)
(* fileName it read, the requests it made, whether the existence check     *)
(* succeeded, and imageUrl and isLoading as the call left them; the events *)
(* are kept in the order of their dispatch with the call they belong to.   *)
(* loadImage is followed for every value of the prop fileName, the empty   *)
(* one included.                                                           *)
(***************************************************************************)
MaxLoads == 2
MaxRenames == 2

ViewerFileNames == {"", "file_1700000000000.jpg", "file_1700000000001.jpg"}

\* customApiUrl || `/api/b2?fileName=${encodeURIComponent(fileName)}`
ApiUrl(name) == "/api/b2?fileName=" \o name

\* what getB2FileUrl resolves to
B2FileUrl(name) == FileUrl(HardCodedDownloadUrl, bucketName, name)

Viewer == [st |-> viewerState, calls |-> loads, log |-> viewerDispatched]

ViewerBecomes(v) ==
    /\ viewerState' = v.st
    /\ loads' = v.calls
    /\ viewerDispatched' = v.log

\* dispatch(event, ...) during call c
ViewerDispatch(v, event, c) ==
    [v EXCEPT !.log = Append(@, [event |-> event, call |-> c])]

\* the call returns: imageUrl and isLoading as it leaves them
Returned(v, c) ==
    [v EXCEPT !.calls[c].stage = "ended",
              !.calls[c].left = [imageUrl |-> v.st.imageUrl,
                                 isLoading |-> v.st.isLoading]]

LoadFailedKeepingUrl(v, c, msg) ==
    Returned([ViewerDispatch([v EXCEPT !.st.error = msg], "error", c)
                 EXCEPT !.st.isLoading = FALSE], c)

\* the catch and the finally block of loadImage
LoadFailed(v, c, msg) ==
    Returned([ViewerDispatch([v EXCEPT !.st.error = msg, !.st.imageUrl = ""],
                             "error", c)
                 EXCEPT !.st.isLoading = FALSE], c)

\* the end of the try block and the finally block of loadImage
Loaded(v, c) ==
    Returned([ViewerDispatch([v EXCEPT !.calls[c].checked = TRUE], "load", c)
                 EXCEPT !.st.isLoading = FALSE], c)

\* loadImage up to its first await
LoadImage(v) ==
    LET c == Len(v.calls) + 1
        call(stage, requests) ==
            [fileName |-> v.st.fileName, stage |-> stage, requests |-> requests,
             checked |-> FALSE,
             left |-> [imageUrl |-> "", isLoading |-> FALSE]]
    IN  IF v.st.fileName = ""
          THEN Returned(
                   ViewerDispatch([v EXCEPT !.st.error = "No file name provided",
                                            !.calls = Append(@, call("name", 0))],
                                  "error", c), c)
          ELSE [v EXCEPT !.st.error = "",
                         !.st.isLoading = TRUE,
                         !.calls = Append(@, IF v.st.useApiEndpoint
                                               THEN call("check", 1)
                                               ELSE call("url", 0))]

\* the component is created with its props; the reactive block and onMount
\* both call loadImage when autoLoad is set and fileName is not empty
B2ImageViewer_mount ==
    /\ ~viewerState.mounted
    /\ \E name \in ViewerFileNames, autoLoad \in BOOLEAN, useApiEndpoint \in BOOLEAN :
         LET v == [Viewer EXCEPT !.st.mounted = TRUE, !.st.fileName = name,
                                 !.st.autoLoad = autoLoad,
                                 !.st.useApiEndpoint = useApiEndpoint]
         IN  ViewerBecomes(IF autoLoad /\ name # ""
                             THEN LoadImage(LoadImage(v))
                             ELSE v)
    /\ UNCHANGED <<pipeline, lookup, headers, reporting, uploader, widgets>>

\* the prop fileName is assigned: the reactive block runs
B2ImageViewer_fileName ==
    /\ viewerState.mounted
    /\ Len(viewerDispatched) + Len(loads) < MaxRenames + MaxLoads
    /\ viewerState.autoLoad => Len(loads) < MaxLoads
    /\ \E name \in ViewerFileNames :
         /\ name # viewerState.fileName
         /\ LET v == [Viewer EXCEPT !.st.fileName = name]
            IN  ViewerBecomes(
                    IF name = "" THEN v
                    ELSE IF viewerState.autoLoad THEN LoadImage(v)
                    ELSE [v EXCEPT !.st.imageUrl = ""])
    /\ UNCHANGED <<pipeline, lookup, headers, reporting, uploader, widgets>>

\* a call of loadImage, as the click on the load button makes it
loadImage ==
    /\ viewerState.mounted
    /\ Len(loads) < MaxLoads
    /\ ViewerBecomes(LoadImage(Viewer))
    /\ UNCHANGED <<pipeline, lookup, headers, reporting, uploader, widgets>>

\* await getB2FileUrl(fileName) of call c: the URL, or an exception
loadImage_url(c) ==
    /\ loads[c].stage = "url"
    /\ \E resolves \in BOOLEAN :
         ViewerBecomes(
             IF resolves
               THEN [Viewer EXCEPT !.st.imageUrl = B2FileUrl(loads[c].fileName),
                                   !.calls[c].stage = "check",
                                   !.calls[c].requests = @ + 1]
               ELSE LoadFailed(Viewer, c, "Failed to load image"))
    /\ UNCHANGED <<pipeline, lookup, headers, reporting, uploader, widgets>>

\* the existence check of call c is answered: checkFileExists returned, or
\* the HEAD request on the endpoint was answered or failed
loadImage_checked(c) ==
    /\ loads[c].stage = "check"
    /\ \E answer \in {"exists", "missing", "rejected"} :
         ViewerBecomes(
             CASE answer = "exists" ->
                    Loaded(IF viewerState.useApiEndpoint
                             THEN [Viewer EXCEPT !.st.imageUrl = ApiUrl(loads[c].fileName)]
                             ELSE Viewer, c)
               [] answer = "missing" ->
                    LoadFailed(Viewer, c, "Image not found or could not be accessed")
               [] OTHER ->
                    LoadFailed(Viewer, c, "fetch failed"))
    /\ UNCHANGED <<pipeline, lookup, headers, reporting, uploader, widgets>>

NextViewer ==
    \/ B2ImageViewer_mount
    \/ B2ImageViewer_fileName
    \/ loadImage
    \/ \E c \in 1..Len(loads) : loadImage_url(c)
    \/ \E c \in 1..Len(loads) : loadImage_checked(c)

(***************************************************************************)
(* The route module with CORS headers (part_001): OPTIONS, GET and POST.   *)
(* A response is kept with its status, its JSON body or payload, and its   *)
(* headers; every return statement of the handlers builds its response as  *)
(* the source does.  The JSON branch of POST is the one of                 *)
(* src/routes/api/b2/+server.ts with addCorsHeaders applied.               *)
(***************************************************************************)
RouteKinds == {"OPTIONS", "GET", "POST.multipart", "POST.authenticate",
               "POST.getUploadUrl", "POST.invalid", "POST.unparsable"}

\* the action directives of a JSON request: the two the handler knows, one
\* it does not, and none
Actions == {"authenticate", "getUploadUrl", "upload", ""}

\* a file name whose first character, U+56FE, is above U+00FF; the character
\* is written by its code point
NonLatin1Name == "<U+56FE>.jpg"

\* the fileName query parameter: absent, a stored name, a name that is not
\* a ByteString
QueryFileNames == FileNameArgs \cup {NonLatin1Name}

HeaderNames == {"Access-Control-Allow-Origin", "Access-Control-Allow-Methods",
                "Access-Control-Allow-Headers", "Access-Control-Max-Age",
                "Content-Type", "Content-Length", "Content-Disposition"}

NoHeaders == [h \in HeaderNames |-> ""]

\* new Response(body, { status })
Response(body, status) ==
    [how |-> "returned", http |-> status, data |-> body, headers |-> NoHeaders]

\* json(data, { status }) of @sveltejs/kit
json(data, status) ==
    [Response(data, status) EXCEPT !.headers["Content-Type"] = "application/json"]

addCorsHeadersWithoutMaxAge(response) ==
    [response EXCEPT
        !.headers["Access-Control-Allow-Origin"] = "*",
        !.headers["Access-Control-Allow-Methods"] = "GET, POST, OPTIONS",
        !.headers["Access-Control-Allow-Headers"] = "Content-Type, Authorization"]

addCorsHeaders(response) ==
    [response EXCEPT
        !.headers["Access-Control-Allow-Origin"] = "*",
        !.headers["Access-Control-Allow-Methods"] = "GET, POST, OPTIONS",
        !.headers["Access-Control-Allow-Headers"] = "Content-Type, Authorization",
        !.headers["Access-Control-Max-Age"] = "86400"]

\* the catch blocks of the handlers: 500 with the message of the error
ErrorResponse(msg) == addCorsHeaders(json([error |-> msg], 500))

RouteFail(p, s, msg) == Finish(p, s, ErrorResponse(msg))

ContinuesAlways(k, op) == TRUE

\* whether a handler of kind k goes on after the call op was answered 2xx
Continues(k, op) ==
    CASE op = "b2_authorize_account" -> k # "POST.authenticate"
      [] op = "b2_list_buckets"      -> k \in {"POST.getUploadUrl", "POST.multipart"}
      [] op = "b2_get_upload_url"    -> k = "POST.multipart"
      [] OTHER                       -> FALSE

DownloadCallWithoutBucket(a, name) ==
    Req("download", a.downloadUrl \o "/file/" \o name, a.authorizationToken, "")

\* fetch(`${authData.downloadUrl}/file/${B2_BUCKET_NAME}/${fileName}`)
DownloadCall(a, name) ==
    Req("download", a.downloadUrl \o "/file/" \o bucketName \o "/" \o name,
        a.authorizationToken, "")

OPTIONS(p) ==
    /\ pc[p] = "idle"
    /\ kind' = [kind EXCEPT ![p] = "OPTIONS"]
    /\ End(p, addCorsHeaders(Response("", 204)))
    /\ UNCHANGED <<accountDownloadUrl, lookup, apart, file, fileName, thisAuthData, thisBucketId>>

GET(p) ==
    /\ pc[p] = "idle"
    /\ kind' = [kind EXCEPT ![p] = "GET"]
    /\ \E name \in QueryFileNames :
         /\ fileName' = [fileName EXCEPT ![p] = name]
         /\ IF name = ""
              THEN End(p, addCorsHeaders(json([error |-> "File name is required"], 400)))
              ELSE Issue(p, AuthorizeCall, "authorize")
                   /\ Locals(p, NullAuth, NullAuth, "", NullTicket)
    /\ UNCHANGED <<accountDownloadUrl, lookup, apart, file, thisAuthData, thisBucketId>>

\* the multipart branch of POST up to its first call
POST_multipart(p) ==
    /\ pc[p] = "idle"
    /\ kind' = [kind EXCEPT ![p] = "POST.multipart"]
    /\ \E f \in Files :
         /\ file' = [file EXCEPT ![p] = f]
         /\ IF ~f.exists
              THEN End(p, addCorsHeaders(json([error |-> "No file uploaded"], 400)))
            ELSE IF f.size = 0
              THEN End(p, addCorsHeaders(json([error |-> "File is empty"], 400)))
            ELSE Issue(p, AuthorizeCall, "authorize")
                 /\ Locals(p, NullAuth, NullAuth, "", NullTicket)
    /\ UNCHANGED <<accountDownloadUrl, lookup, apart, fileName, thisAuthData, thisBucketId>>

\* the JSON branch of POST up to its first call: request.json() throws, or
\* yields the action
POST_json(p) ==
    /\ pc[p] = "idle"
    /\ \E parses \in BOOLEAN, action \in Actions :
         IF ~parses
           THEN /\ kind' = [kind EXCEPT ![p] = "POST.unparsable"]
                /\ End(p, ErrorResponse("Unexpected end of JSON input"))
         ELSE IF action \in {"authenticate", "getUploadUrl"}
           THEN /\ kind' = [kind EXCEPT ![p] = "POST." \o action]
                /\ Issue(p, AuthorizeCall, "authorize")
                /\ Locals(p, NullAuth, NullAuth, "", NullTicket)
         ELSE /\ kind' = [kind EXCEPT ![p] = "POST.invalid"]
              /\ End(p, addCorsHeaders(json([error |-> "Invalid action"], 400)))
    /\ UNCHANGED <<accountDownloadUrl, lookup, apart, file, fileName, thisAuthData, thisBucketId>>

\* authenticateB2 is answered
route_authenticateB2(p) ==
    /\ pc[p] = "authorize"
    /\ kind[p] \in RouteKinds
    /\ \E s \in Statuses :
         IF ResponseOk(s)
           THEN LET session == AuthResponse(p, accountDownloadUrl)
                IN  IF ~Continues(kind[p], request[p].op)
                      THEN Finish(p, s, addCorsHeaders(json(session, 200)))
                    ELSE /\ Locals(p, session, NullAuth, "", NullTicket)
                         /\ Proceed(p, s,
                                    IF kind[p] = "GET"
                                      THEN DownloadCall(session, fileName[p])
                                      ELSE ListBucketsCall(session),
                                    IF kind[p] = "GET" THEN "download"
                                                       ELSE "list_buckets")
           ELSE RouteFail(p, s, CallError("Authentication failed", s))
    /\ UNCHANGED <<accountDownloadUrl, lookup, apart, kind, file, fileName, thisAuthData, thisBucketId>>

\* getBucketId is answered
route_getBucketId(p) ==
    /\ pc[p] = "list_buckets"
    /\ kind[p] \in RouteKinds
    /\ \E s \in Statuses :
         IF ResponseOk(s)
           THEN \E bucket \in {FindBucket(buckets, bucketName) : buckets \in BucketLists} :
                  IF bucket = ""
                    THEN RouteFail(p, s, NotFound)
                    ELSE /\ Locals(p, authData[p], NullAuth, bucket, NullTicket)
                         /\ Proceed(p, s, GetUploadUrlCall(authData[p], bucket),
                                    "get_upload_url")
           ELSE RouteFail(p, s, CallError("Failed to list buckets", s))
    /\ UNCHANGED <<accountDownloadUrl, lookup, apart, kind, file, fileName, thisAuthData, thisBucketId>>

\* getUploadUrl is answered
route_getUploadUrl(p) ==
    /\ pc[p] = "get_upload_url"
    /\ kind[p] \in RouteKinds
    /\ \E s \in Statuses :
         IF ResponseOk(s)
           THEN LET ticket == UploadUrlResponse(p, request[p].arg)
                IN  IF ~Continues(kind[p], request[p].op)
                      THEN Finish(p, s, addCorsHeaders(json(ticket, 200)))
                    ELSE /\ Locals(p, authData[p], NullAuth, bucketId[p], ticket)
                         /\ Proceed(p, s, UploadCall(authData[p], ticket, file[p]),
                                    "upload")
           ELSE RouteFail(p, s, CallError("Failed to get upload URL", s))
    /\ UNCHANGED <<accountDownloadUrl, lookup, apart, kind, file, fileName, thisAuthData, thisBucketId>>

\* uploadToB2 of the module is answered
route_uploadToB2(p) ==
    /\ pc[p] = "upload"
    /\ kind[p] \in RouteKinds
    /\ \E s \in Statuses :
         IF ResponseOk(s)
           THEN \E fn \in ProviderFileNames :
                  FinishUpload(p, s, fn,
                      addCorsHeaders(json(
                          [success |-> TRUE, fileName |-> fn,
                           fileUrl |-> FileUrl(HardCodedDownloadUrl, bucketName, fn)],
                          200)))
           ELSE IF s \in TransportError THEN RouteFail(p, s, NetworkError)
           ELSE \E body \in ErrorBodies :
                  FinishRefused(p, s, body,
                      ErrorResponse(
                          StatusError("B2 upload failed", s)
                              \o (IF body.json
                                    THEN MessagePart(body) \o CodePart(body)
                                    ELSE " - " \o Join(body.text)
                                             \o " + SyntaxError: Unexpected token")))
    /\ UNCHANGED <<accountDownloadUrl, lookup, apart, kind, file, fileName, thisAuthData, thisBucketId>>

\* downloadFileFromB2 is answered; GET then builds its response, and
\* headers.set throws for a Content-Disposition that is not a ByteString
downloadFileFromB2(p) ==
    /\ pc[p] = "download"
    /\ kind[p] = "GET"
    /\ \E s \in Statuses, contentType \in {"", "image/jpeg"}, contentLength \in {"", "10"} :
         IF ResponseOk(s)
           THEN IF fileName[p] = NonLatin1Name
                  THEN RouteFail(p, s, "Cannot convert argument to a ByteString")
                  ELSE Finish(p, s,
                           addCorsHeaders(
                               [Response("bytes", 200) EXCEPT
                                   !.headers["Content-Type"] = contentType,
                                   !.headers["Content-Length"] = contentLength,
                                   !.headers["Content-Disposition"] =
                                       "attachment; filename=\"" \o fileName[p] \o "\""]))
           ELSE RouteFail(p, s, CallError("Download failed", s))
    /\ UNCHANGED <<accountDownloadUrl, lookup, apart, kind, file, fileName, thisAuthData, thisBucketId>>

Route(p) ==
    \/ OPTIONS(p)
    \/ GET(p)
    \/ POST_multipart(p)
    \/ POST_json(p)
    \/ route_authenticateB2(p)
    \/ route_getBucketId(p)
    \/ route_getUploadUrl(p)
    \/ route_uploadToB2(p)
    \/ downloadFileFromB2(p)

NextRoutes == \E p \in Procs : Route(p)

(***************************************************************************)
(* The component B2Downloader.  downloadFile calls getFileDownloadUrl of   *)
(* the client createB2Client returned; each event is kept with the call it *)
(* belongs to and with fileName, status and imageUrl as they were when it  *)
(* was dispatched.                                                         *)
(***************************************************************************)
MaxDownloads == 3

\* the methods of the object createB2Client returns
ClientMethods == {"authenticate", "getBucketId", "getUploadUrl", "uploadFile",
                  "uploadFileWithProgress"}

DownloaderFileNames == {""} \cup ProviderFileNames

\* the calls of downloadFile so far
DownloadCalls == {downloaderDispatched[i].call : i \in 1..Len(downloaderDispatched)}

\* <event>.dispatch(...) during call c of downloadFile
DownloaderDispatch(st, log, event, c) ==
    Append(log, [event |-> event, call |-> c, fileName |-> st.fileName,
                 status |-> st.status, imageUrl |-> st.imageUrl])

\* the text field bound to fileName is edited
B2Downloader_input ==
    /\ \E name \in DownloaderFileNames :
         /\ name # downloaderState.fileName
         /\ downloaderState' = [downloaderState EXCEPT !.fileName = name]
    /\ UNCHANGED <<downloaderDispatched, events, pipeline, lookup, headers,
                   reporting, uploader, viewer>>

\* downloadFile: b2Client.getFileDownloadUrl is called inside the try block;
\* calling a method the client does not have throws a TypeError
downloadFile ==
    /\ Cardinality(DownloadCalls) < MaxDownloads
    /\ LET c == Cardinality(DownloadCalls) + 1
           st == downloaderState
       IN  IF st.fileName = ""
             THEN LET refused == [st EXCEPT !.errorMessage = "Please enter a file name",
                                            !.status = "error"]
                  IN  /\ downloaderState' = refused
                      /\ downloaderDispatched' =
                             DownloaderDispatch(refused, downloaderDispatched, "error", c)
             ELSE LET loading == [st EXCEPT !.status = "loading", !.errorMessage = "",
                                            !.imageUrl = ""]
                      started == DownloaderDispatch(loading, downloaderDispatched,
                                                    "start", c)
                  IN  IF "getFileDownloadUrl" \in ClientMethods
                        THEN LET done == [loading EXCEPT
                                             !.imageUrl = FileUrl(accountDownloadUrl,
                                                                  bucketName, st.fileName),
                                             !.status = "success"]
                             IN  /\ downloaderState' = done
                                 /\ downloaderDispatched' =
                                        DownloaderDispatch(done, started, "complete", c)
                        ELSE LET failed == [loading EXCEPT
                                               !.status = "error",
                                               !.errorMessage =
                                                   "b2Client.getFileDownloadUrl is not a function"]
                             IN  /\ downloaderState' = failed
                                 /\ downloaderDispatched' =
                                        DownloaderDispatch(failed, started, "error", c)
    /\ UNCHANGED <<events, pipeline, lookup, headers, reporting, uploader, viewer>>

NextDownloader ==
    \/ B2Downloader_input
    \/ downloadFile

(***************************************************************************)
(* The event objects createEventDispatcher of B2Uploader and B2Downloader  *)
(* returns: an array of callbacks, dispatch calling callbacks.forEach, and *)
(* subscribe pushing the callback and returning a function that removes    *)
(* the first occurrence of the callback.  A callback may be armed to call  *)
(* one of the functions subscribe returned when it is invoked.             *)
(***************************************************************************)
MaxSubscriptions == 3
MaxDispatches == 2

\* callbacks.indexOf(callback), counted from 1, 0 when absent
RECURSIVE IndexFrom(_, _, _)
IndexFrom(list, cb, i) ==
    IF i > Len(list) THEN 0
    ELSE IF list[i] = cb THEN i
    ELSE IndexFrom(list, cb, i + 1)

\* the function subscribe returned: indexOf, then splice(index, 1)
Remove(list, cb) ==
    LET index == IndexFrom(list, cb, 1)
    IN  IF index = 0 THEN list
        ELSE SubSeq(list, 1, index - 1) \o SubSeq(list, index + 1, Len(list))

\* callbacks.forEach(callback => callback(detail)) from index i on: the
\* indices up to the length the array had at the start are visited as long
\* as the array still has them
RECURSIVE ForEach(_, _, _, _, _)
ForEach(list, hs, i, n, invoked) ==
    IF i > n \/ i > Len(list)
      THEN [callbacks |-> list, handles |-> hs, invoked |-> invoked]
      ELSE LET cb == list[i]
               h == armed[cb]
           IN  IF h = 0 \/ h > Len(hs)
                 THEN ForEach(list, hs, i + 1, n, Append(invoked, cb))
                 ELSE ForEach(Remove(list, hs[h].cb),
                              [hs EXCEPT ![h].called = TRUE],
                              i + 1, n, Append(invoked, cb))

subscribe ==
    /\ Len(handles) < MaxSubscriptions
    /\ \E cb \in Cbs :
         /\ callbacks' = Append(callbacks, cb)
         /\ handles' = Append(handles, [cb |-> cb, called |-> FALSE])
    /\ UNCHANGED <<armed, delivered, downloader, pipeline, lookup, headers,
                   reporting, uploader, viewer>>

\* the function a subscribe returned is called outside a dispatch
unsubscribe ==
    /\ \E h \in 1..Len(handles) :
         /\ ~handles[h].called
         /\ callbacks' = Remove(callbacks, handles[h].cb)
         /\ handles' = [handles EXCEPT ![h].called = TRUE]
    /\ UNCHANGED <<armed, delivered, downloader, pipeline, lookup, headers,
                   reporting, uploader, viewer>>

\* a callback is written so that it calls the function subscribe number h
\* returned
arm ==
    /\ \E cb \in Cbs, h \in 1..Len(handles) :
         /\ armed[cb] = 0
         /\ ~handles[h].called
         /\ armed' = [armed EXCEPT ![cb] = h]
    /\ UNCHANGED <<callbacks, handles, delivered, downloader, pipeline, lookup,
                   headers, reporting, uploader, viewer>>

dispatch ==
    /\ Len(delivered) < MaxDispatches
    /\ LET run == ForEach(callbacks, handles, 1, Len(callbacks), <<>>)
       IN  /\ callbacks' = run.callbacks
           /\ handles' = run.handles
           /\ delivered' = Append(delivered, [subscribed |-> callbacks,
                                              invoked |-> run.invoked,
                                              left |-> run.callbacks])
    /\ UNCHANGED <<armed, downloader, pipeline, lookup, headers, reporting,
                   uploader, viewer>>

NextEvents ==
    \/ subscribe
    \/ unsubscribe
    \/ arm
    \/ dispatch

(***************************************************************************)
(* Specifications.                                                         *)
(***************************************************************************)
Stateless(p) ==
    \/ POST(p)
    \/ uploadFile(p)
    \/ uploadFileWithProgress(p)
    \/ authenticate(p)
    \/ getBucketId(p)
    \/ getUploadUrl(p)
    \/ uploadToB2(p)
    \/ xhrLoad(p)
    \/ xhrError(p)
    \/ xhrThrows(p)

Client(p) ==
    \/ B2Client_uploadFile(p)
    \/ B2Client_authenticateCall(p)
    \/ B2Client_getFileUrl(p)
    \/ B2Client_checkFileExists(p)
    \/ B2Client_authenticate(p)
    \/ B2Client_getAuthData(p)
    \/ B2Client_getUploadUrlCall(p)
    \/ B2Client_getBucketIdCall(p)
    \/ B2Client_getBucketId(p)
    \/ B2Client_getUploadUrl(p)
    \/ B2Client_upload(p)
    \/ B2Client_head(p)

Next == \E p \in Procs : Stateless(p) \/ Client(p)

NextClient == \E p \in Procs : Client(p)

\* every call site, on one process set
Spec == Init /\ [][Next]_vars

\* the invocations of one shared B2Client
SpecClient == Init /\ [][NextClient]_vars

\* the bucket lookup on every input
SpecLookup == InitLookup /\ [][findBucket]_vars

\* the upload request of every call site on every file
SpecHeaders == InitHeaders /\ [][NextHeaders]_vars

\* the progress reports of one createB2Client upload
SpecProgress == Init /\ [][NextProgress]_vars

\* the upload attempts of one B2ImageUploader
SpecUploader == Init /\ [][NextUploader]_vars

\* the loadImage calls of one B2ImageViewer
SpecViewer == Init /\ [][NextViewer]_vars

\* the requests served by the route module with CORS headers
SpecRoutes == Init /\ [][NextRoutes]_vars

\* the downloadFile calls of one B2Downloader
SpecDownloader == Init /\ [][NextDownloader]_vars

\* one event object and its subscribers
SpecEvents == Init /\ [][NextEvents]_vars

(***************************************************************************)
(* Vocabulary of the properties.                                           *)
(***************************************************************************)
Authorize == "b2_authorize_account"
ListBuckets == "b2_list_buckets"
GetUrl == "b2_get_upload_url"
UploadPost == "b2_upload_file"
HeadOp == "HEAD"

Rank(op) ==
    CASE op = Authorize -> 1
      [] op = ListBuckets -> 2
      [] op = GetUrl -> 3
      [] op = UploadPost -> 4
      [] OTHER -> 5

\* the positions of the calls of endpoint op in the history of run p
CallsOf(p, op) == {i \in 1..Len(calls[p]) : calls[p][i].op = op}
Called(p, op) == CallsOf(p, op) # {}

\* the token of the session a successful authorization issued to run q
SessionOf(q) == "session" \o ToString(q)
\* some run's authorize call has succeeded and issued the session of token tok
SessionIssued(tok) ==
    \E q \in Procs : /\ tok = SessionOf(q)
                     /\ \E i \in CallsOf(q, Authorize) : calls[q][i].status \in OkStatus
\* some run's list-buckets call has succeeded
BucketsListed ==
    \E q \in Procs : \E i \in CallsOf(q, ListBuckets) : calls[q][i].status \in OkStatus

C2_Prefix(op) ==
    CASE op = Authorize -> "Authentication failed"
      [] op = ListBuckets -> "Failed to list buckets"
      [] OTHER -> "Failed to get upload URL"

C2_FailedCallIsTerminal ==
    \A p \in Procs : \A i \in 1..Len(calls[p]) :
        (calls[p][i].op \in {Authorize, ListBuckets, GetUrl}
            /\ calls[p][i].status \in FailStatus) =>
            /\ i = Len(calls[p])
            /\ pc[p] = "done"
            /\ request[p] = NoRequest
            /\ ~result[p].success
            /\ kind[p] # "B2Client.checkFileExists" =>
                   /\ result[p].error =
                          C2_Prefix(calls[p][i].op) \o ": " \o ToString(calls[p][i].status)
                              \o " " \o statusText(calls[p][i].status)
                   /\ kind[p] \in ClientKinds => result[p].how = "thrown"
                   /\ kind[p] = "POST" => result[p].http = 500

\* a run whose list-buckets call was answered 401 after a successful
\* authenticate
C2_Witness ==
    \E p \in Procs :
        /\ Len(calls[p]) = 2
        /\ calls[p][2].op = ListBuckets
        /\ calls[p][2].status = 401
        /\ pc[p] = "done"

(***************************************************************************)
(* C3.  No retry: within one invocation each remote endpoint is called at  *)
(* most once, and a run that has reached the upload step has made exactly  *)
(* one upload POST, whether it succeeds or fails.                          *)
(***************************************************************************)
C3_NoRetry ==
    \A p \in Procs :
        /\ \A i, j \in 1..Len(calls[p]) : calls[p][i].op = calls[p][j].op => i = j
        /\ pc[p] = "upload" => Cardinality(CallsOf(p, UploadPost)) = 1
        /\ (kind[p] \in UploadKinds /\ result[p].success) =>
               Cardinality(CallsOf(p, UploadPost)) = 1
        /\ (pc[p] = "done" /\ Called(p, UploadPost)) =>
               /\ Cardinality(CallsOf(p, UploadPost)) = 1
               /\ calls[p][Len(calls[p])].op = UploadPost
               /\ calls[p][Len(calls[p])].status # InFlight

\* a run that ended on a failed upload POST
C3_Witness ==
    \E p \in Procs :
        /\ pc[p] = "done"
        /\ Called(p, UploadPost)
        /\ calls[p][Len(calls[p])].status \in FailStatus \cup TransportError

(***************************************************************************)
(* C4.  An upload of a missing or zero-length file issues no remote call   *)
(* and ends in the empty-file failure: the route answers 400,              *)
(* createB2Client returns {success: false}, B2Client.uploadFile throws.    *)
(***************************************************************************)
C4_EmptyFileNoCall ==
    \A p \in Procs :
        (kind[p] \in UploadKinds /\ (~file[p].exists \/ file[p].size = 0)) =>
            /\ calls[p] = <<>>
            /\ request[p] = NoRequest
            /\ pc[p] = "done"
            /\ ~result[p].success
            /\ kind[p] = "POST" =>
                   /\ result[p].how = "returned" /\ result[p].http = 400
                   /\ result[p].error =
                          (IF file[p].exists THEN "File is empty" ELSE "No file uploaded")
            /\ kind[p] \in {"uploadFile", "uploadFileWithProgress"} =>
                   /\ result[p].how = "returned"
                   /\ result[p].error = "File is empty or invalid"
            /\ kind[p] = "B2Client.uploadFile" =>
                   /\ result[p].how = "thrown"
                   /\ result[p].error = "File is empty - please upload a valid file"

\* a zero-length file handed to createB2Client.uploadFileWithProgress, and
\* a missing one handed to B2Client.uploadFile
C4_Witness ==
    /\ \E p \in Procs :
        /\ kind[p] = "uploadFileWithProgress"
        /\ file[p].exists /\ file[p].size = 0
        /\ pc[p] = "done"
    /\ \E p \in Procs :
        /\ kind[p] = "B2Client.uploadFile"
        /\ ~file[p].exists
        /\ pc[p] = "done"

(***************************************************************************)
(* C5.  The pipeline never mixes tokens across authentication calls: in    *)
(* every upload run, under any interleaving, the listing and the           *)
(* get-upload-URL call are made with the token of the one session the run  *)
(* obtained, the session whose download URL the result is built from.      *)
(***************************************************************************)
C5_OneSessionPerRun ==
    \A p \in Procs :
        (kind[p] \in UploadKinds /\ request[p].op \in {ListBuckets, GetUrl}) =>
            request[p].tok = authData[p].authorizationToken

C6_StatelessOwn ==
    \A p \in Procs :
        /\ (kind[p] \in StatelessKinds /\ calls[p] # <<>>) =>
               /\ calls[p][1].op = Authorize
               /\ authData[p] # NullAuth => authData[p].authorizationToken = SessionOf(p)
               /\ Called(p, GetUrl) => Called(p, ListBuckets)
        /\ (kind[p] \in UploadKinds /\ Called(p, UploadPost)) => Called(p, GetUrl)

C6_ClientStep ==
    \A p \in Procs :
        /\ (pc[p] = "idle" /\ kind'[p] = "B2Client.uploadFile" /\ pc'[p] # "done") =>
               IF thisAuthData = NullAuth
                 THEN Len(calls'[p]) = 1 /\ calls'[p][1].op = Authorize
                 ELSE calls'[p] = <<>> /\ authData'[p] = thisAuthData
        /\ (pc[p] = "getBucketId" /\ pc'[p] # "getBucketId") =>
               IF thisBucketId = ""
                 THEN request'[p].op = ListBuckets
                 ELSE request'[p].op = GetUrl /\ request'[p].arg = thisBucketId

C7_FirstExactMatch ==
    bucketOut # Unset =>
        LET hits == {i \in 1..Len(bucketsIn) : bucketsIn[i].bucketName = nameIn}
        IN  IF hits = {}
              THEN bucketOut = "Bucket \"" \o nameIn \o "\" not found"
              ELSE \E i \in hits : /\ \A j \in hits : i <= j
                                   /\ bucketOut = bucketsIn[i].bucketId

\* the lookup has run on a list whose two entries both carry the wanted
\* name, with different ids
C7_Witness ==
    /\ bucketOut # Unset
    /\ Len(bucketsIn) = 2
    /\ bucketsIn[1].bucketName = nameIn /\ bucketsIn[2].bucketName = nameIn
    /\ bucketsIn[1].bucketId # bucketsIn[2].bucketId

(***************************************************************************)
(* C8.  On every successful upload, at every call site, the returned file  *)
(* name is the fileName of the upload response and the returned URL is the *)
(* session's downloadUrl + "/file/" + bucketName + "/" + that file name.   *)
(***************************************************************************)
C8_UrlFromSession ==
    \A p \in Procs :
        (kind[p] \in UploadKinds /\ result[p].success) =>
            /\ result[p].fileName = calls[p][Len(calls[p])].fileName
            /\ result[p].fileUrl =
                   accountDownloadUrl \o "/file/" \o bucketName \o "/" \o result[p].fileName

(***************************************************************************)
(* C9 (as stated).  B2Client.getFileUrl issues no network call in any      *)
(* client state.                                                           *)
(***************************************************************************)
C9_NoCallInAnyState ==
    \A p \in Procs : kind[p] = "B2Client.getFileUrl" => calls[p] = <<>>

(***************************************************************************)
(* C9 (amended).  B2Client.getFileUrl issues no network call when the      *)
(* client holds a session, and otherwise only the one authorize call that  *)
(* obtains it; called with a non-empty fileName it returns, whenever it    *)
(* returns, downloadUrl + "/file/" + bucketName + "/" + fileName for the   *)
(* session's downloadUrl; with an empty fileName it throws without a call. *)
(***************************************************************************)
C9_UrlInv ==
    \A p \in Procs :
        kind[p] = "B2Client.getFileUrl" =>
            /\ Len(calls[p]) <= 1
            /\ \A i \in 1..Len(calls[p]) : calls[p][i].op = Authorize
            /\ pc[p] = "done" =>
                   IF fileName[p] = ""
                     THEN result[p].how = "thrown" /\ calls[p] = <<>>
                     ELSE result[p].how = "returned" =>
                              result[p].fileUrl =
                                  accountDownloadUrl \o "/file/" \o bucketName \o "/"
                                      \o fileName[p]

C9_CachedStep ==
    \A p \in Procs :
        (pc[p] = "idle" /\ kind'[p] = "B2Client.getFileUrl" /\ thisAuthData # NullAuth) =>
            calls'[p] = <<>> /\ pc'[p] = "done"

C9_PureOnceAuthenticated == []C9_UrlInv /\ [][C9_CachedStep]_vars

\* getFileUrl has returned a URL without any call of its own
C9_Witness ==
    \E p \in Procs :
        /\ kind[p] = "B2Client.getFileUrl"
        /\ pc[p] = "done"
        /\ result[p].how = "returned"
        /\ fileName[p] # ""
        /\ calls[p] = <<>>

(***************************************************************************)
(* C10 (as stated).  checkFileExists never lets an exception propagate,    *)
(* for every input.                                                        *)
(***************************************************************************)
C10_NeverThrows ==
    \A p \in Procs :
        (kind[p] = "B2Client.checkFileExists" /\ pc[p] = "done") =>
            result[p].how = "returned"

(***************************************************************************)
(* C10 (amended).  Called with a non-empty fileName, checkFileExists never *)
(* lets an exception propagate: it returns false on every failure (failed  *)
(* authentication, transport failure or non-2xx status of the HEAD         *)
(* request) and true only when the HEAD response status is in the success  *)
(* range.  Called with an empty fileName it throws "File name is required" *)
(* without any call.                                                       *)
(***************************************************************************)
C10_SwallowsFailures ==
    \A p \in Procs :
        (kind[p] = "B2Client.checkFileExists" /\ pc[p] = "done") =>
            IF fileName[p] = ""
              THEN /\ result[p].how = "thrown"
                   /\ result[p].error = "File name is required"
                   /\ calls[p] = <<>>
              ELSE /\ result[p].how = "returned"
                   /\ result[p].success <=>
                          /\ calls[p][Len(calls[p])].op = HeadOp
                          /\ calls[p][Len(calls[p])].status >= 200
                          /\ calls[p][Len(calls[p])].status < 300

\* checkFileExists has returned false after its authentication failed
C10_Witness ==
    \E p \in Procs :
        /\ kind[p] = "B2Client.checkFileExists"
        /\ pc[p] = "done"
        /\ Len(calls[p]) = 1
        /\ calls[p][1].op = Authorize
        /\ calls[p][1].status = 401
        /\ result[p].how = "returned"
        /\ ~result[p].success

(***************************************************************************)
(* C11.  For every original file name the derived storage name is          *)
(* "file_" + timestamp + "." + ext, where ext is the extension of the      *)
(* original name (what follows its last ".") and is "jpg" when the         *)
(* original name has no extension; the base name never is the extension.   *)
(***************************************************************************)
C11_HasExtension(name) ==
    \E i \in 1..Len(name) : name[i] = "." /\ i < Len(name) /\ name[Len(name)] # "."

C11_Ext(name) ==
    IF C11_HasExtension(name)
      THEN LET dot == CHOOSE i \in 1..Len(name) :
                          name[i] = "." /\ \A j \in (i + 1)..Len(name) : name[j] # "."
           IN  SubSeq(name, dot + 1, Len(name))
      ELSE <<"j", "p", "g">>

C11_DerivedName ==
    upload # NoUpload =>
        upload.fileName =
            "file_" \o ToString(upload.at) \o "." \o Join(C11_Ext(upload.original))

(***************************************************************************)
(* C12.  Two uploads whose names are derived at different millisecond      *)
(* timestamps get different storage names, whatever the two original file  *)
(* names are.                                                              *)
(***************************************************************************)
C12_DistinctAcrossTime ==
    (upload # NoUpload /\ previous # NoPrevious /\ upload.at # previous.at) =>
        upload.fileName # previous.fileName

\* two names were derived at different times from files of the same
\* extension
C12_Witness ==
    /\ upload # NoUpload
    /\ previous.at = 1
    /\ previous.fileName = "file_1.1"
    /\ upload.at = 11
    /\ upload.original = <<".", "1">>

(***************************************************************************)
(* C13.  When the upload POST is answered a non-2xx status, every upload   *)
(* operation ends in failure, its error text carries the status code, and  *)
(* the message and the code of a JSON body are appended to it, a truncated *)
(* excerpt of the raw body otherwise.                                      *)
(***************************************************************************)
C13_Detail(body) ==
    IF body.json
      THEN (IF body.message # "" THEN " - " \o body.message ELSE "")
               \o (IF body.code # "" THEN " (code: " \o body.code \o ")" ELSE "")
      ELSE " - " \o Join(SubSeq(body.text, 1,
                                IF Len(body.text) < 100 THEN Len(body.text) ELSE 100))

C14_HashAndLengthOfBody ==
    upload # NoUpload =>
        /\ upload.body = upload.bytes
        /\ upload.body # <<>>
        /\ upload.sha1 = <<"sha1", upload.body>>
        /\ upload.contentLength = ToString(Len(upload.body))

\* createB2Client.uploadFileWithProgress has built the request of a file of
\* more than one byte
C14_Witness ==
    /\ upload # NoUpload
    /\ upload.site = "uploadFileWithProgress"
    /\ upload.bytes = <<7, 255>>
    /\ upload.contentLength = "2"

(***************************************************************************)
(* C15.  One percent-encoding policy is applied to the upload file-name    *)
(* header: two upload requests for the same derived file name carry the    *)
(* same X-Bz-File-Name value, whichever call sites build them.             *)
(***************************************************************************)
C15_OneHeaderPolicy ==
    (upload # NoUpload /\ previous # NoPrevious
        /\ upload.fileName = previous.fileName) =>
        upload.header = previous.header

(***************************************************************************)
(* C16.  The POST handler answers 400 for a multipart request whose file   *)
(* is missing or empty, without any B2 call; it answers 500 with the error *)
(* message whenever a step of the pipeline fails; and it answers success,  *)
(* with fileName and fileUrl, only when all four pipeline calls succeeded. *)
(***************************************************************************)
C16_PostStatusCodes ==
    \A p \in Procs :
        (kind[p] = "POST" /\ pc[p] = "done") =>
            LET n == Len(calls[p])
                unfit == ~file[p].exists \/ file[p].size = 0
                allOk == /\ n = 4
                         /\ \A i \in 1..4 : calls[p][i].status \in OkStatus
                         /\ <<calls[p][1].op, calls[p][2].op, calls[p][3].op, calls[p][4].op>>
                                = <<Authorize, ListBuckets, GetUrl, UploadPost>>
            IN  /\ result[p].how = "returned"
                /\ result[p].http \in {200, 400, 500}
                /\ unfit <=> result[p].http = 400
                /\ unfit => n = 0 /\ ~result[p].success
                /\ result[p].success <=> result[p].http = 200
                /\ result[p].success =>
                       /\ allOk
                       /\ result[p].fileName = calls[p][4].fileName
                       /\ result[p].fileName # ""
                       /\ result[p].fileUrl # ""
                /\ (~unfit /\ ~allOk) =>
                       /\ result[p].http = 500
                       /\ result[p].error # ""
                       /\ (n > 0 /\ calls[p][n].status \in FailStatus /\ n < 4) =>
                              result[p].error =
                                  C2_Prefix(calls[p][n].op) \o ": "
                                      \o ToString(calls[p][n].status) \o " "
                                      \o statusText(calls[p][n].status)
                       /\ (n > 0 /\ calls[p][n].status \in TransportError) =>
                              result[p].error = "fetch failed"
                       /\ (n = 2 /\ calls[p][2].status \in OkStatus) =>
                              result[p].error = "Bucket \"eeshstutiBucket\" not found"

\* the handler has answered 500 after the upload POST, the fourth call,
\* was refused
C16_Witness ==
    \E p \in Procs :
        /\ kind[p] = "POST"
        /\ pc[p] = "done"
        /\ Len(calls[p]) = 4
        /\ calls[p][4].status = 503
        /\ result[p].http = 500

(***************************************************************************)
(* C17.  The values reported to onProgress during one createB2Client       *)
(* upload never decrease and lie in 10..100 whenever the loaded byte count *)
(* of the transport never decreases and never exceeds total; and 100 is    *)
(* reported only as the last value of an upload that ends successfully.    *)
(***************************************************************************)
C17_WellBehaved ==
    \A i \in 1..Len(xhr.loaded) :
        /\ xhr.loaded[i].loaded <= xhr.total
        /\ \A j \in 1..(i - 1) : xhr.loaded[j].loaded <= xhr.loaded[i].loaded

C17_ProgressReports ==
    /\ C17_WellBehaved =>
           \A i \in 1..Len(reported) :
               /\ reported[i] \in 10..100
               /\ \A j \in 1..(i - 1) : reported[j] <= reported[i]
    /\ \A i \in 1..Len(reported) :
           reported[i] = 100 => (outcome = "success" /\ i = Len(reported))
    /\ ~xhr.onProgress => reported = <<>>

\* half of a two-byte body was sent, then all of it, and the upload
\* succeeded: 10, 10 + 43, 10 + 85 and 100 were reported
C17_Witness ==
    /\ xhr.site = "uploadFileWithProgress"
    /\ xhr.total = 2
    /\ C17_WellBehaved
    /\ reported = <<10, 53, 95, 100>>
    /\ outcome = "success"

(***************************************************************************)
(* C18.  uploadFile and uploadFileWithProgress of createB2Client never     *)
(* throw or reject: an invocation that has ended has returned a result,    *)
(* a result that is not a success carries an error message, and a success  *)
(* carries fileName and fileUrl.                                           *)
(***************************************************************************)
C18_AlwaysAnUploadResult ==
    \A p \in Procs :
        (kind[p] \in {"uploadFile", "uploadFileWithProgress"} /\ pc[p] = "done") =>
            /\ result[p].how = "returned"
            /\ ~result[p].success => result[p].error # ""
            /\ result[p].success =>
                   result[p].fileName # "" /\ result[p].fileUrl # ""

(***************************************************************************)
(* C19.  For every attempt of B2ImageUploader that dispatched 'start',     *)
(* 'start' is the first event of the attempt, so it precedes every         *)
(* 'progress'; an attempt that has ended dispatched exactly one of         *)
(* 'success' and 'error', as its last event and with uploadStatus equal to *)
(* the event's name, and an attempt that has not ended dispatched neither. *)
(* An attempt with no selected file or with an empty file dispatched       *)
(* 'error' and nothing else, and made no request.                          *)
(***************************************************************************)
C19_EventsOf(a) ==
    SelectSeq(dispatched, LAMBDA e : e.attempt = a)

C19_AttemptEvents ==
    \A a \in 1..Len(attempts) :
        LET es == C19_EventsOf(a)
            closing == {i \in 1..Len(es) : es[i].event \in {"success", "error"}}
        IN  /\ attempts[a].cause = "started" =>
                /\ Len(es) >= 1
                /\ es[1].event = "start"
                /\ es[1].uploadStatus = "uploading"
                /\ \A i \in 2..Len(es) : es[i].event # "start"
                /\ attempts[a].stage = "ended" =>
                       /\ closing = {Len(es)}
                       /\ es[Len(es)].uploadStatus = es[Len(es)].event
                /\ attempts[a].stage # "ended" => closing = {}
                /\ attempts[a].requests <= 1
            /\ attempts[a].cause # "started" =>
                /\ attempts[a].stage = "ended"
                /\ Len(es) = 1
                /\ es[1].event = "error"
                /\ es[1].uploadStatus = "error"
                /\ attempts[a].requests = 0

\* two attempts overlapped; the first ended with 'error' after a 'progress'
\* event, the second with 'success'
C19_Witness ==
    /\ Len(attempts) = 2
    /\ \E i, j, k, l \in 1..Len(dispatched) :
         /\ i < j /\ j < k /\ k < l
         /\ dispatched[i] = [event |-> "start", attempt |-> 2, uploadStatus |-> "uploading"]
         /\ dispatched[j].event = "progress" /\ dispatched[j].attempt = 1
         /\ dispatched[k] = [event |-> "error", attempt |-> 1, uploadStatus |-> "error"]
         /\ dispatched[l] = [event |-> "success", attempt |-> 2, uploadStatus |-> "success"]

(***************************************************************************)
(* C20.  Every loadImage call that has returned dispatched exactly one     *)
(* event, 'load' or 'error', and a call that has not returned dispatched   *)
(* none.  A call with an empty fileName dispatched 'error' and made no     *)
(* request.  A load that was started and failed left imageUrl empty and    *)
(* isLoading false.  'load' was dispatched only by a call whose existence  *)
(* check succeeded.                                                        *)
(***************************************************************************)
C20_EventsOf(c) ==
    SelectSeq(viewerDispatched, LAMBDA e : e.call = c)

C20_LoadOrError ==
    \A c \in 1..Len(loads) :
        LET es == C20_EventsOf(c)
        IN  /\ loads[c].stage = "ended" =>
                /\ Len(es) = 1
                /\ es[1].event \in {"load", "error"}
            /\ loads[c].stage # "ended" => es = <<>>
            /\ loads[c].fileName = "" =>
                /\ loads[c].stage = "ended"
                /\ es[1].event = "error"
                /\ loads[c].requests = 0
            /\ (loads[c].fileName # "" /\ loads[c].stage = "ended"
                  /\ es[1].event = "error") =>
                /\ loads[c].left.imageUrl = ""
                /\ ~loads[c].left.isLoading
            /\ (loads[c].stage = "ended" /\ es[1].event = "load") =>
                /\ loads[c].checked
                /\ loads[c].requests = 1
                /\ loads[c].fileName # ""

\* a first call loaded the image, a second one, made directly on B2, got the
\* URL and then found the file missing
C20_Witness ==
    /\ ~viewerState.useApiEndpoint
    /\ Len(loads) = 2
    /\ viewerDispatched = <<[event |-> "load", call |-> 1],
                            [event |-> "error", call |-> 2]>>
    /\ loads[2].requests = 1
    /\ viewerState.imageUrl = ""
    /\ viewerState.error = "Image not found or could not be accessed"

(***************************************************************************)
(* C21.  In the uploader components a file that fails the validation (too  *)
(* large or, for B2Uploader, of a type that is not allowed) is never       *)
(* uploaded: the step that refuses it sets uploadStatus to 'error',        *)
(* dispatches 'error', leaves selectedFile as it was and starts no         *)
(* attempt; such a file is never the selected file, and no attempt and no  *)
(* request carries it.                                                     *)
(***************************************************************************)
C21_Refusal ==
    (/\ Len(dispatched') = Len(dispatched) + 1
     /\ dispatched'[Len(dispatched')].event = "error"
     /\ dispatched'[Len(dispatched')].attempt = 0)
        => /\ uploaderState'.uploadStatus = "error"
           /\ dispatched'[Len(dispatched')].uploadStatus = "error"
           /\ uploaderState'.selectedFile = uploaderState.selectedFile
           /\ attempts' = attempts

C21_NeverCarried ==
    /\ uploaderState.selectedFile \notin {"oversize", "wrongtype"}
    /\ \A a \in 1..Len(attempts) :
           /\ attempts[a].file \notin {"oversize", "wrongtype"}
           /\ attempts[a].requests > 0 => attempts[a].file \in {"image", "image2"}

C21_InvalidFileNeverUploaded ==
    [](C21_NeverCarried) /\ [][C21_Refusal]_vars

\* a file was selected, a second file was refused, and the upload that
\* followed carried the file selected first
C21_Witness ==
    /\ Len(attempts) = 1
    /\ attempts[1].file = "image"
    /\ attempts[1].requests = 1
    /\ uploaderState.selectedFile = "image"
    /\ \E i, j, k \in 1..Len(dispatched) :
         /\ i < j /\ j < k
         /\ dispatched[i].event = "select"
         /\ dispatched[j].event = "error" /\ dispatched[j].attempt = 0
         /\ dispatched[k].event = "start" /\ dispatched[k].attempt = 1

(***************************************************************************)
(* C22.  For a POST that is not multipart the action selects the chain of  *)
(* calls: "authenticate" issues the authorize call only and answers with   *)
(* the session; "getUploadUrl" issues authorize, list buckets and get      *)
(* upload URL in that order and never the upload POST; any other action is *)
(* answered 400 and issues no call.                                        *)
(***************************************************************************)
C22_Ops(p) == [i \in 1..Len(calls[p]) |-> calls[p][i].op]

C22_ActionSelectsChain ==
    \A p \in Procs :
        LET ops == C22_Ops(p)
            chain == <<"b2_authorize_account", "b2_list_buckets", "b2_get_upload_url">>
        IN  /\ kind[p] = "POST.authenticate" =>
                /\ ops = SubSeq(chain, 1, Len(ops))
                /\ Len(ops) <= 1
                /\ (pc[p] = "done" /\ calls[p][1].status \in OkStatus) =>
                       /\ result[p].http = 200
                       /\ result[p].data.authorizationToken = "session" \o ToString(p)
                       /\ result[p].data.downloadUrl = accountDownloadUrl
            /\ kind[p] = "POST.getUploadUrl" =>
                /\ ops = SubSeq(chain, 1, Len(ops))
                /\ \A i \in 2..Len(ops) : calls[p][i - 1].status \in OkStatus
                /\ (pc[p] = "done" /\ Len(ops) = 3 /\ calls[p][3].status \in OkStatus) =>
                       /\ result[p].http = 200
                       /\ result[p].data.authorizationToken = "ticket" \o ToString(p)
                /\ (pc[p] = "done" /\ result[p].http = 200) =>
                       Len(ops) = 3 /\ calls[p][3].status \in OkStatus
            /\ kind[p] = "POST.invalid" =>
                /\ ops = <<>>
                /\ pc[p] = "done"
                /\ result[p].http = 400
                /\ result[p].data.error = "Invalid action"

\* one request was answered with the session after its one call, another
\* with the ticket after its three calls
C22_Witness ==
    \E p, q \in Procs :
        /\ kind[p] = "POST.authenticate" /\ pc[p] = "done"
        /\ Len(calls[p]) = 1 /\ result[p].http = 200
        /\ kind[q] = "POST.getUploadUrl" /\ pc[q] = "done"
        /\ Len(calls[q]) = 3 /\ result[q].http = 200

(***************************************************************************)
(* C23.  The GET handler answers 400 without any call when the fileName    *)
(* parameter is missing; otherwise it authenticates once and then issues   *)
(* one download GET to downloadUrl/file/<bucket>/<fileName> with the       *)
(* authorization token of that authentication; a failure of either call    *)
(* is answered 500.                                                        *)
(***************************************************************************)
C23_DownloadHandler ==
    \A p \in Procs :
        kind[p] = "GET" =>
            LET n == Len(calls[p])
            IN  /\ fileName[p] = "" =>
                    /\ pc[p] = "done"
                    /\ n = 0
                    /\ result[p].http = 400
                    /\ result[p].data.error = "File name is required"
                /\ fileName[p] # "" =>
                    /\ n \in 1..2
                    /\ calls[p][1].op = "b2_authorize_account"
                    /\ n = 2 => /\ calls[p][2].op = "download"
                                /\ calls[p][1].status \in OkStatus
                    /\ pc[p] = "download" =>
                        /\ n = 2
                        /\ request[p].url =
                               accountDownloadUrl \o "/file/" \o "eeshstutiBucket"
                                   \o "/" \o fileName[p]
                        /\ request[p].tok = "session" \o ToString(p)
                    /\ (pc[p] = "done" /\ calls[p][n].status \notin OkStatus) =>
                        result[p].http = 500
                    /\ (pc[p] = "done" /\ result[p].http = 200) =>
                        /\ n = 2
                        /\ calls[p][2].status \in OkStatus
                    /\ pc[p] = "done" => result[p].http \in {200, 500}

\* one download was served after its two calls while another request was
\* answered 500 because its download GET was refused
C23_Witness ==
    \E p, q \in Procs :
        /\ kind[p] = "GET" /\ pc[p] = "done" /\ result[p].http = 200
        /\ Len(calls[p]) = 2
        /\ kind[q] = "GET" /\ pc[q] = "done" /\ result[q].http = 500
        /\ Len(calls[q]) = 2 /\ calls[q][2].status \in FailStatus

(***************************************************************************)
(* C29.  Every response of OPTIONS, GET and POST of the route module with  *)
(* CORS headers, whatever its status, carries the four Access-Control      *)
(* headers addCorsHeaders sets.                                            *)
(***************************************************************************)
C29_CorsOnEveryResponse ==
    \A p \in Procs :
        (kind[p] \in RouteKinds /\ pc[p] = "done") =>
            /\ result[p].how = "returned"
            /\ result[p].http \in {200, 204, 400, 500}
            /\ result[p].headers["Access-Control-Allow-Origin"] = "*"
            /\ result[p].headers["Access-Control-Allow-Methods"] = "GET, POST, OPTIONS"
            /\ result[p].headers["Access-Control-Allow-Headers"] =
                   "Content-Type, Authorization"
            /\ result[p].headers["Access-Control-Max-Age"] = "86400"

\* a multipart POST was answered 500 after its upload was refused, and a
\* preflight request was answered 204
C29_Witness ==
    \E p, q \in Procs :
        /\ kind[p] = "POST.multipart" /\ pc[p] = "done"
        /\ Len(calls[p]) = 4 /\ result[p].http = 500
        /\ result[p].headers["Access-Control-Max-Age"] = "86400"
        /\ kind[q] = "OPTIONS" /\ pc[q] = "done" /\ result[q].http = 204

(***************************************************************************)
(* C24.  A downloadFile call of B2Downloader with a non-empty fileName     *)
(* ends with status 'success', a non-empty imageUrl and one                *)
(* downloadCompleteEvent carrying that URL, and without a                  *)
(* downloadErrorEvent, when the service answers every request              *)
(* successfully (no request of the call is answered otherwise).            *)
(***************************************************************************)
C24_EventsOf(c) ==
    SelectSeq(downloaderDispatched, LAMBDA e : e.call = c)

C24_DownloadSucceeds ==
    \A c \in DownloadCalls :
        LET es == C24_EventsOf(c)
        IN  es[1].fileName # "" =>
                /\ Len(es) = 2
                /\ es[1].event = "start"
                /\ es[2].event = "complete"
                /\ es[2].status = "success"
                /\ es[2].imageUrl # ""

(***************************************************************************)
(* C30.  Each dispatch of an event object invokes every subscribed         *)
(* callback exactly once, in subscription order: a callback is invoked at  *)
(* most as often as it was subscribed when the dispatch began and at least *)
(* as often as it is still subscribed when the dispatch ends, also when a  *)
(* callback unsubscribes during the dispatch and when a callback is        *)
(* subscribed more than once; and a callback all of whose unsubscribe      *)
(* functions have been called is no longer subscribed.                     *)
(***************************************************************************)
C30_Count(list, cb) == Len(SelectSeq(list, LAMBDA x : x = cb))

C30_EverySubscriberOnce ==
    /\ \A i \in 1..Len(delivered) :
           \A cb \in Cbs :
               /\ C30_Count(delivered[i].invoked, cb)
                      <= C30_Count(delivered[i].subscribed, cb)
               /\ C30_Count(delivered[i].left, cb)
                      <= C30_Count(delivered[i].invoked, cb)
    /\ \A cb \in Cbs :
           (\A h \in 1..Len(handles) : handles[h].cb = cb => handles[h].called)
               => C30_Count(callbacks, cb) = 0

(***************************************************************************)
(* C25.  In the uploader components at most one upload request is in       *)
(* flight at any time, uploadStatus is 'uploading' whenever a request is   *)
(* in flight (the upload button is then disabled), and in status 'success' *)
(* the uploaded file shown is the file currently selected.                 *)
(***************************************************************************)
C25_InFlight ==
    {a \in 1..Len(attempts) : attempts[a].stage = "sending" /\ attempts[a].requests = 1}

C25_OneUploadInFlight ==
    /\ Cardinality(C25_InFlight) <= 1
    /\ C25_InFlight # {} => uploaderState.uploadStatus = "uploading"
    /\ uploaderState.uploadStatus = "success" =>
           uploaderState.uploadedFile = uploaderState.selectedFile

(***************************************************************************)
(* C26.  In B2ImageViewer with autoLoad, once fileName has changed between *)
(* two loads: isLoading is false only when no load is in flight, and when  *)
(* all loads have settled the imageUrl displayed is empty or the URL of    *)
(* the current fileName, never the URL a stale load left.                  *)
(***************************************************************************)
C26_Renamed ==
    \E c, d \in 1..Len(loads) :
        /\ loads[c].fileName # ""
        /\ loads[d].fileName # ""
        /\ loads[c].fileName # loads[d].fileName

C26_Settled == \A c \in 1..Len(loads) : loads[c].stage = "ended"

C26_LatestLoadShown ==
    (viewerState.autoLoad /\ viewerState.fileName # "" /\ C26_Renamed) =>
        /\ ~viewerState.isLoading => C26_Settled
        /\ C26_Settled =>
               viewerState.imageUrl \in {"", ApiUrl(viewerState.fileName),
                                         B2FileUrl(viewerState.fileName)}

(***************************************************************************)
(* C27.  Mounting B2ImageViewer with autoLoad=true and a non-empty         *)
(* fileName starts exactly one load; mounting with autoLoad=false starts   *)
(* none.  Stated on the step that mounts the component.                    *)
(***************************************************************************)
C27_Mounting ==
    (~viewerState.mounted /\ viewerState'.mounted) =>
        Len(loads') = IF viewerState'.autoLoad /\ viewerState'.fileName # ""
                        THEN 1 ELSE 0

C27_OneLoadOnMount == [][C27_Mounting]_vars

(***************************************************************************)
(* C28.  The cached fields of B2Client change only on success: a failed    *)
(* authenticate leaves this.authData as it was and a failed getBucketId    *)
(* (listing not 2xx, or bucket not found) leaves this.bucketId as it was;  *)
(* this.authData changes only where an authorization succeeded, to a       *)
(* session, and this.bucketId only where a listing held the bucket, to its *)
(* id; and a getBucketId call made when this.bucketId is set returns that  *)
(* id without a request of its own (the request that follows is            *)
(* getUploadUrl's, for that id).                                           *)
(***************************************************************************)
C28_Step ==
    /\ \A p \in Procs :
          /\ (pc[p] = "authorize" /\ kind[p] \in ClientKinds /\ pc'[p] = "done"
                /\ ~result'[p].success) =>
                 thisAuthData' = thisAuthData
          /\ (pc[p] = "list_buckets" /\ kind[p] \in ClientKinds /\ pc'[p] = "done") =>
                 thisBucketId' = thisBucketId
          /\ (pc[p] = "getBucketId" /\ thisBucketId # "" /\ pc'[p] # "getBucketId") =>
                 /\ bucketId'[p] = thisBucketId
                 /\ thisBucketId' = thisBucketId
                 /\ request'[p].op = GetUrl
                 /\ request'[p].arg = thisBucketId
                 /\ Len(calls'[p]) = Len(calls[p]) + 1
                 /\ calls'[p][Len(calls'[p])].op = GetUrl
    /\ thisAuthData' # thisAuthData =>
          /\ thisAuthData' # NullAuth
          /\ \E p \in Procs :
                /\ pc[p] \in {"authorize", "getAuthData"}
                /\ pc'[p] = "done" => result'[p].success
    /\ thisBucketId' # thisBucketId =>
          /\ thisBucketId' \in BucketIds
          /\ \E p \in Procs :
                /\ pc[p] = "list_buckets"
                /\ pc'[p] = "get_upload_url"
                /\ bucketId'[p] = thisBucketId'

C28_CachedOnlyOnSuccess == [][C28_Step]_vars

\* one run listed the buckets and cached the id; another run of uploadFile,
\* started with the cache filled, asked for its upload URL with that id as
\* its first request
C28_Witness ==
    \E p, q \in Procs :
        /\ p # q
        /\ thisBucketId # ""
        /\ Called(p, ListBuckets)
        /\ bucketId[p] = thisBucketId
        /\ kind[q] = "B2Client.uploadFile"
        /\ calls[q] # <<>>
        /\ calls[q][1].op = GetUrl
        /\ bucketId[q] = thisBucketId

====
